---- MODULE Spec2Model ----
(***************************************************************************)
(* Model of the voteblock ledger: the transaction pool                     *)
(* (TransactionManager), the hash-chained ledger with rotating authority   *)
(* (EnhancedBlockchainService), and the storage keys they share.           *)
(*                                                                         *)
(* Each persisted collection (StorageService key) is one variable.         *)
(* getItem returns a private copy and setItem replaces the whole value.    *)
(* Digests are modelled symbolically: generateHash(x) is the tagged        *)
(* preimage <<"H", x>>, so two digests are equal exactly when their        *)
(* preimages are equal (collision resistance).                             *)
(***************************************************************************)
EXTENDS Integers, Sequences, FiniteSets, TLC

VARIABLES
    chain,      \* storage key BLOCKCHAIN_KEY: sequence of blocks, <<>> when absent
    nodes,      \* storage key NODES_KEY: sequence of nodes, <<>> when absent
    consensus,  \* storage key CONSENSUS_KEY: ConsensusState, NoConsensus when absent
    pool,       \* storage key TRANSACTION_POOL_KEY: sequence of transactions
    contracts,  \* storage key CONTRACTS_KEY: sequence of contracts
    metricsHistory, \* storage key METRICS_KEY: sequence of metrics snapshots
    now,        \* the wall clock read by new Date()
    last,       \* the last completed operation and what it returned or threw
    calls       \* interleaved invocations: per caller, its position and locals

vars == <<chain, nodes, consensus, pool, contracts, metricsHistory, now, last, calls>>

----------------------------------------------------------------------------
(* Bounds of the model *)

MaxChain == 3       \* blocks in the chain, genesis included
MaxTime == 1        \* last clock value
MaxNonce == 3       \* nonces tried by proof-of-work mining

(* Program constants *)

MAX_POOL_SIZE == 1000
BATCH_SIZE == 10
INITIAL_REPUTATION == 100
MAX_REPUTATION == 100
VALIDATOR_STAKE == 1000000
INITIAL_BLOCK_TIME == 3000
INITIAL_DIFFICULTY == 3

NETWORK_ID == "nigeria-evoting-mainnet"

----------------------------------------------------------------------------
(* Values *)

NoId == 0                   \* an absent (falsy) transaction id
NoBlockIndex == -1          \* blockIndex of a transaction not yet in a block
NoSignature == <<>>         \* an absent (falsy) signature
Undefined == "undefined"    \* an absent validator id

TxTypes == <<"vote", "smart_contract", "election_update", "election_create", "voter_register">>

validTypes == {"vote", "election_create", "election_update", "voter_register", "smart_contract"}

Min(a, b) == IF a <= b THEN a ELSE b

Range(s) == {s[i] : i \in 1..Len(s)}

\* find / findIndex by id: the 1-based position of the first entry with the
\* id; 0 stands for the code's -1 or undefined
FindIndex(s, id) ==
    IF \E i \in 1..Len(s) : s[i].id = id
    THEN CHOOSE i \in 1..Len(s) : s[i].id = id /\ \A j \in 1..(i - 1) : s[j].id # id
    ELSE 0

----------------------------------------------------------------------------
(* CryptoService *)

generateHash(preimage) == <<"H", preimage>>

\* Number of leading '0' characters of a block digest: a fixed function of
\* the preimage, here of the nonce and the index it contains.
ZeroPrefix(hash) == (hash[2][6] + hash[2][2]) % (INITIAL_DIFFICULTY + 1)

----------------------------------------------------------------------------
(* TransactionManager *)

calculateGasLimit(type) ==
    CASE type = "vote" -> 100
      [] type = "election_create" -> 500
      [] type = "election_update" -> 300
      [] type = "voter_register" -> 200
      [] type = "smart_contract" -> 1000
      [] OTHER -> 100

signTransaction(tx) ==
    generateHash(<<"txsig", tx.id, tx.type, tx.from, tx.to, tx.data, tx.timestamp>>)

createTransaction(id, type, from, data, to, timestamp) ==
    LET unsigned == [id |-> id, type |-> type, from |-> from, to |-> to,
                     data |-> data, timestamp |-> timestamp,
                     signature |-> NoSignature, status |-> "pending",
                     gasLimit |-> calculateGasLimit(type), gasUsed |-> 0,
                     blockIndex |-> NoBlockIndex]
    IN [unsigned EXCEPT !.signature = signTransaction(unsigned)]

\* !value of a string-valued field: undefined and '' are falsy
Absent(value) == value \in {Undefined, ""}

\* A validateTransaction without the payload test
validateTransactionNoData(tx) ==
    IF tx.id = NoId \/ tx.signature = NoSignature
    THEN "Missing transaction ID or signature"
    ELSE IF Absent(tx.from) THEN "Missing sender address"
    ELSE IF tx.type \notin validTypes THEN "Invalid transaction type"
    ELSE "valid"

validateTransaction(tx) ==
    IF tx.id = NoId \/ tx.signature = NoSignature
    THEN "Missing transaction ID or signature"
    ELSE IF Absent(tx.from) THEN "Missing sender address"
    ELSE IF Absent(tx.data) THEN "Missing transaction data"
    ELSE IF tx.type \notin validTypes THEN "Invalid transaction type"
    ELSE "valid"

verifyTransactionSignature(tx) == tx.signature = signTransaction(tx)

getPendingTransactions(p) == SelectSeq(p, LAMBDA tx : tx.status = "pending")

\* A priority table in the order in which validateTransaction lists the types
priorityOrderAsDeclared(type) ==
    CASE type = "vote" -> 1
      [] type = "election_create" -> 2
      [] type = "election_update" -> 3
      [] type = "voter_register" -> 4
      [] type = "smart_contract" -> 5
      [] OTHER -> 999

priorityOrder(type) ==
    CASE type = "vote" -> 1
      [] type = "smart_contract" -> 2
      [] type = "election_update" -> 3
      [] type = "election_create" -> 4
      [] type = "voter_register" -> 5
      [] OTHER -> 999

\* The comparator of getBatchForProcessing: negative when a sorts before b
compareTx(a, b) ==
    IF priorityOrder(a.type) # priorityOrder(b.type)
    THEN priorityOrder(a.type) - priorityOrder(b.type)
    ELSE a.timestamp - b.timestamp

\* Array.prototype.sort is stable: insert each element after the elements
\* that do not sort after it
RECURSIVE InsertSorted(_, _)
InsertSorted(sorted, tx) ==
    IF sorted = <<>> THEN <<tx>>
    ELSE IF compareTx(tx, Head(sorted)) < 0 THEN <<tx>> \o sorted
         ELSE <<Head(sorted)>> \o InsertSorted(Tail(sorted), tx)

RECURSIVE SortTx(_)
SortTx(s) ==
    IF s = <<>> THEN <<>>
    ELSE InsertSorted(SortTx(SubSeq(s, 1, Len(s) - 1)), s[Len(s)])

getBatchForProcessing(p) ==
    LET sorted == SortTx(getPendingTransactions(p))
    IN SubSeq(sorted, 1, Min(BATCH_SIZE, Len(sorted)))

\* The pool after markTransactionConfirmed: the first entry with the id
MarkConfirmedPool(p, transactionId, blockIndex, gasUsed) ==
    LET i == FindIndex(p, transactionId)
    IN IF i = 0 THEN p
       ELSE [p EXCEPT ![i] = [@ EXCEPT !.status = "confirmed",
                                       !.blockIndex = blockIndex,
                                       !.gasUsed = gasUsed]]

\* The pool after markTransactionFailed
MarkFailedPool(p, transactionId) ==
    LET i == FindIndex(p, transactionId)
    IN IF i = 0 THEN p ELSE [p EXCEPT ![i] = [@ EXCEPT !.status = "failed"]]

\* The pool after clearConfirmedTransactions
ClearConfirmedPool(p, cutoffTime) ==
    SelectSeq(p, LAMBDA tx : IF tx.status # "confirmed" THEN TRUE ELSE tx.timestamp > cutoffTime)

----------------------------------------------------------------------------
(* EnhancedBlockchainService: pure parts *)

calculateHash(block) ==
    generateHash(<<"block", block.index, block.timestamp, block.data,
                   block.previousHash, block.nonce, block.merkleRoot>>)

MerkleLevel(hashes) ==
    [i \in 1..((Len(hashes) + 1) \div 2) |->
        IF 2 * i <= Len(hashes)
        THEN generateHash(<<"cat", hashes[2 * i - 1], hashes[2 * i]>>)
        ELSE hashes[2 * i - 1]]

RECURSIVE MerkleFold(_)
MerkleFold(hashes) ==
    IF Len(hashes) <= 1 THEN hashes[1] ELSE MerkleFold(MerkleLevel(hashes))

calculateMerkleRoot(transactions) ==
    IF Len(transactions) = 0
    THEN generateHash(<<"empty">>)
    ELSE MerkleFold([i \in 1..Len(transactions) |->
                        generateHash(<<"json", transactions[i]>>)])

signBlock(block) == generateHash(<<"blocksig", block.index, block.hash, block.validator>>)

createGenesisBlock(timestamp) ==
    LET block == [index |-> 0, timestamp |-> timestamp,
                  data |-> <<"genesis", NETWORK_ID>>,
                  previousHash |-> <<"0">>, hash |-> <<>>, nonce |-> 0,
                  validator |-> "system", signature |-> <<>>,
                  transactions |-> <<>>,
                  merkleRoot |-> calculateMerkleRoot(<<>>),
                  gasUsed |-> 0, difficulty |-> 0]
        hashed == [block EXCEPT !.hash = calculateHash(block)]
    IN [hashed EXCEPT !.signature = signBlock(hashed)]

createNode(id, type, address, timestamp) ==
    [id |-> id, address |-> address, type |-> type, status |-> "active",
     lastSeen |-> timestamp, blocksValidated |-> 0,
     reputation |-> INITIAL_REPUTATION,
     stake |-> IF type = "validator" THEN VALIDATOR_STAKE ELSE 0]

getActiveValidators(ns) ==
    SelectSeq(ns, LAMBDA n : n.type = "validator" /\ n.status = "active")

NoConsensus ==
    [mechanism |-> "none", currentValidator |-> Undefined, validators |-> <<>>,
     epoch |-> 0, blockTime |-> 0, difficulty |-> 0]

\* getConsensusState: the stored record, or the default when none is stored
getConsensusState(c) ==
    IF c = NoConsensus
    THEN [mechanism |-> "PoA", currentValidator |-> Undefined, validators |-> <<>>,
          epoch |-> 0, blockTime |-> INITIAL_BLOCK_TIME, difficulty |-> INITIAL_DIFFICULTY]
    ELSE c

\* validateBlock: the message of the error it throws, or "valid"
validateBlock(newBlock, previousBlock) ==
    IF newBlock.index # previousBlock.index + 1 THEN "Invalid block index"
    ELSE IF newBlock.previousHash # previousBlock.hash THEN "Invalid previous hash"
    ELSE IF newBlock.hash # calculateHash(newBlock) THEN "Invalid block hash"
    ELSE IF newBlock.merkleRoot # calculateMerkleRoot(newBlock.transactions)
         THEN "Invalid merkle root"
    ELSE "valid"

validateBlockchain(c) ==
    \A i \in 2..Len(c) : validateBlock(c[i], c[i - 1]) = "valid"

----------------------------------------------------------------------------
(* EnhancedBlockchainService: storage-level parts *)

\* The node table after initializeNetwork
initializeNetwork(ns, timestamp) ==
    IF Len(ns) = 0
    THEN << createNode("v1", "validator", "INEC-Primary-Validator", timestamp),
            createNode("v2", "validator", "INEC-Secondary-Validator", timestamp),
            createNode("v3", "validator", "INEC-Tertiary-Validator", timestamp),
            createNode("p1", "peer", "Regional-Node-Lagos", timestamp),
            createNode("p2", "peer", "Regional-Node-Abuja", timestamp),
            createNode("p3", "peer", "Regional-Node-Kano", timestamp) >>
    ELSE ns

\* The consensus record initializeConsensus builds
InitialConsensus(ns) ==
    LET validators == getActiveValidators(ns)
    IN [mechanism |-> "PoA",
        currentValidator |-> IF Len(validators) > 0 THEN validators[1].id ELSE Undefined,
        validators |-> [i \in 1..Len(validators) |-> validators[i].id],
        epoch |-> 0,
        blockTime |-> INITIAL_BLOCK_TIME,
        difficulty |-> INITIAL_DIFFICULTY]

\* An initializeConsensus that does not look for a stored record
initializeConsensusAlways(c, ns) == InitialConsensus(ns)

\* The consensus record after initializeConsensus
initializeConsensus(c, ns) ==
    IF c = NoConsensus THEN InitialConsensus(ns) ELSE c

\* The node table after updateValidatorStats
updateValidatorStats(ns, validatorId, timestamp) ==
    LET i == FindIndex(ns, validatorId)
    IN IF i = 0 THEN ns
       ELSE [ns EXCEPT ![i] = [@ EXCEPT !.blocksValidated = @ + 1,
                                        !.lastSeen = timestamp,
                                        !.reputation = Min(MAX_REPUTATION, @ + 1)]]

\* A rotation over the validators of every status
rotateValidatorAnyStatus(c, ns) ==
    LET cons == getConsensusState(c)
        validators == SelectSeq(ns, LAMBDA n : n.type = "validator")
        currentIndex == FindIndex(validators, cons.currentValidator)
        nextIndex == (currentIndex % Len(validators)) + 1
    IN IF Len(validators) = 0 THEN c
       ELSE [cons EXCEPT !.currentValidator = validators[nextIndex].id,
                         !.epoch = @ + 1]

\* A rotation that steps from the current index without wrapping around
rotateValidatorNoWrap(c, ns) ==
    LET cons == getConsensusState(c)
        validators == getActiveValidators(ns)
        currentIndex == FindIndex(validators, cons.currentValidator)
        nextIndex == Min(currentIndex + 1, Len(validators))
    IN IF Len(validators) = 0 THEN c
       ELSE [cons EXCEPT !.currentValidator = validators[nextIndex].id,
                         !.epoch = @ + 1]

\* The stored consensus record after rotateValidator
rotateValidator(c, ns) ==
    LET cons == getConsensusState(c)
        validators == getActiveValidators(ns)
        currentIndex == FindIndex(validators, cons.currentValidator)
        nextIndex == (currentIndex % Len(validators)) + 1
    IN IF Len(validators) = 0 THEN c
       ELSE [cons EXCEPT !.currentValidator = validators[nextIndex].id,
                         !.epoch = @ + 1]

\* A tip selection that always takes the first block
TipFirst(c) == c[1]

\* The tip addBlock extends
Tip(c) == c[Len(c)]

\* A push that overwrites the tip instead of extending the chain
ReplaceTip(c, newBlock) == [c EXCEPT ![Len(c)] = newBlock]

\* chain.push(newBlock)
PushBlock(c, newBlock) == Append(c, newBlock)

RECURSIVE SumGas(_)
SumGas(transactions) ==
    IF transactions = <<>> THEN 0
    ELSE Head(transactions).gasUsed + SumGas(Tail(transactions))

\* The candidate block of addBlock before its hash is set
NewBlock(previousBlock, cons, transactions, timestamp) ==
    [index |-> previousBlock.index + 1, timestamp |-> timestamp,
     data |-> <<"block", NETWORK_ID, Len(transactions)>>,
     previousHash |-> previousBlock.hash, hash |-> <<>>, nonce |-> 0,
     validator |-> IF cons.currentValidator = Undefined THEN "system"
                   ELSE cons.currentValidator,
     signature |-> <<>>, transactions |-> transactions,
     merkleRoot |-> calculateMerkleRoot(transactions),
     gasUsed |-> SumGas(transactions), difficulty |-> cons.difficulty]

\* A search that returns with the first nonce it draws
mineBlockPoWFirstDraw(block, difficulty) == 0..MaxNonce

\* The nonces with which mineBlockPoW can return
mineBlockPoW(block, difficulty) ==
    {n \in 0..MaxNonce : ZeroPrefix(calculateHash([block EXCEPT !.nonce = n])) >= difficulty}

\* The nonces the candidate can carry when its hash is set
CandidateNonces(block, cons) ==
    IF cons.mechanism = "PoW" THEN mineBlockPoW(block, cons.difficulty) ELSE {0}

\* The candidate block, hashed and signed
SealBlock(block, nonce) ==
    LET mined == [block EXCEPT !.nonce = nonce]
        hashed == [mined EXCEPT !.hash = calculateHash(mined)]
    IN [hashed EXCEPT !.signature = signBlock(hashed)]

\* A confirmation loop that stops before the last transaction of the list
RECURSIVE ConfirmAllButLast(_, _, _)
ConfirmAllButLast(p, transactions, blockIndex) ==
    IF Len(transactions) <= 1 THEN p
    ELSE ConfirmAllButLast(MarkConfirmedPool(p, Head(transactions).id, blockIndex,
                                             Head(transactions).gasUsed),
                           Tail(transactions), blockIndex)

\* The pool after the confirmation loop of addBlock
RECURSIVE ConfirmAll(_, _, _)
ConfirmAll(p, transactions, blockIndex) ==
    IF transactions = <<>> THEN p
    ELSE ConfirmAll(MarkConfirmedPool(p, Head(transactions).id, blockIndex,
                                      Head(transactions).gasUsed),
                    Tail(transactions), blockIndex)

----------------------------------------------------------------------------
(* SmartContractService *)

NeverExecuted == -1     \* lastExecuted of a contract that has not run

\* A contract's code is kept as the lines of its text, a function standing for
\* the line that declares it.  The text of each default contract opens with a
\* line break: the template literal starts on the line of the back quote and
\* the function on the next one
CodeOnNextLine(function) == <<"", function>>

CodeInline(function) == <<function>>

\* new Function('return ' + code)(): the text is the body of a function, and a
\* return that is followed by a line break returns nothing (the statement ends
\* at the line break), so code whose first line is blank yields undefined and
\* other code yields the function it declares
CompiledFunction(code) == IF code[1] = "" THEN Undefined ELSE code[1]

\* The contract record deployContract appends; ids are handed out in
\* deployment order
NewContract(id, type, code, timestamp) ==
    [id |-> id, type |-> type, code |-> code, deployedBy |-> "system",
     deployedAt |-> timestamp, isActive |-> TRUE, executionCount |-> 0,
     lastExecuted |-> NeverExecuted]

\* The contract table after deployContract
DeployedContracts(cs, type, code, timestamp) ==
    Append(cs, NewContract(Len(cs) + 1, type, code, timestamp))

\* The contract table after deployDefaultContracts
DefaultContracts(cs, timestamp) ==
    IF Len(cs) = 0
    THEN DeployedContracts(
            DeployedContracts(
                DeployedContracts(cs, "election_rules",
                                  CodeOnNextLine("validateElectionRules"), timestamp),
                "voting_validation", CodeOnNextLine("validateVote"), timestamp),
            "result_calculation", CodeOnNextLine("calculateResults"), timestamp)
    ELSE cs

\* The contract table after updateContract
UpdatedContracts(cs, contract) ==
    LET index == FindIndex(cs, contract.id)
    IN IF index = 0 THEN cs ELSE [cs EXCEPT ![index] = contract]

----------------------------------------------------------------------------
(* BlockchainMonitoringService *)

BLOCK_TIME_WARNING == 10000
BLOCK_TIME_CRITICAL == 30000
PENDING_WARNING == 100
PENDING_CRITICAL == 500
BLOCK_TIME_WINDOW == 100
TPS_WINDOW == 10
HASH_RATE_WINDOW == 100
MAX_HISTORY_ITEMS == 1000
MS_PER_SECOND == 1000

\* A quotient num / den of the code, kept exact; den is positive
Ratio(num, den) == [num |-> num, den |-> den]

Zero == Ratio(0, 1)

\* ratio > bound
Exceeds(ratio, bound) == ratio.num > bound * ratio.den

RECURSIVE Sum(_)
Sum(s) == IF s = <<>> THEN 0 ELSE Head(s) + Sum(Tail(s))

\* Array.prototype.slice(0, n)
FirstN(s, n) == SubSeq(s, 1, Min(n, Len(s)))

\* Array.prototype.slice(-n)
LastN(s, n) == SubSeq(s, IF Len(s) > n THEN Len(s) - n + 1 ELSE 1, Len(s))

calculateBlockTimes(c) ==
    [i \in 1..(Min(Len(c), BLOCK_TIME_WINDOW) - 1) |-> c[i + 1].timestamp - c[i].timestamp]

averageBlockTime(c) ==
    LET blockTimes == calculateBlockTimes(c)
    IN IF Len(blockTimes) > 0 THEN Ratio(Sum(blockTimes), Len(blockTimes)) ELSE Zero

calculateTPS(c) ==
    LET recentBlocks == LastN(c, TPS_WINDOW)
        totalTransactions == Sum([i \in 1..Len(recentBlocks) |-> Len(recentBlocks[i].transactions)])
        timeSpanMs == recentBlocks[Len(recentBlocks)].timestamp - recentBlocks[1].timestamp
    IN IF Len(recentBlocks) < 2 THEN Zero
       ELSE IF timeSpanMs > 0 THEN Ratio(totalTransactions * MS_PER_SECOND, timeSpanMs)
       ELSE Zero

calculateNetworkHashRate(c, difficulty) ==
    LET recentBlocks == LastN(c, HASH_RATE_WINDOW)
        totalHashes == Len(recentBlocks) * (2 ^ (difficulty * 4))
        timeSpanMs == recentBlocks[Len(recentBlocks)].timestamp - recentBlocks[1].timestamp
    IN IF Len(recentBlocks) < 2 THEN Zero
       ELSE IF timeSpanMs > 0 THEN Ratio(totalHashes * MS_PER_SECOND, timeSpanMs)
       ELSE Zero

\* A network status that counts the validators of every status
getNetworkStatusAnyValidator(ns) ==
    LET activeNodes == SelectSeq(ns, LAMBDA n : n.status = "active")
        validators == SelectSeq(ns, LAMBDA n : n.type = "validator")
    IN [totalNodes |-> Len(ns),
        activeNodes |-> Len(activeNodes),
        validators |-> Len(validators),
        networkHealth |-> IF Len(validators) < 2 THEN "critical"
                          ELSE IF 2 * Len(activeNodes) < Len(ns) THEN "degraded"
                          ELSE "healthy"]

getNetworkStatus(ns) ==
    LET activeNodes == SelectSeq(ns, LAMBDA n : n.status = "active")
        validators == getActiveValidators(ns)
    IN [totalNodes |-> Len(ns),
        activeNodes |-> Len(activeNodes),
        validators |-> Len(validators),
        networkHealth |-> IF Len(validators) < 2 THEN "critical"
                          ELSE IF 2 * Len(activeNodes) < Len(ns) THEN "degraded"
                          ELSE "healthy"]

\* The snapshot getRealtimeMetrics returns
getRealtimeMetrics(c, p, ns, cons, timestamp) ==
    LET networkStatus == getNetworkStatus(ns)
        average == averageBlockTime(c)
        chainValid == validateBlockchain(c)
    IN [totalBlocks |-> Len(c),
        totalTransactions |-> Len(p),
        averageBlockTime |-> average,
        transactionsPerSecond |-> calculateTPS(c),
        networkHashRate |-> calculateNetworkHashRate(c, getConsensusState(cons).difficulty),
        activeNodes |-> networkStatus.activeNodes,
        consensusHealth |->
            IF networkStatus.networkHealth = "critical" \/ ~chainValid THEN "critical"
            ELSE IF networkStatus.networkHealth = "degraded"
                    \/ Exceeds(average, BLOCK_TIME_WARNING) THEN "degraded"
            ELSE "healthy",
        chainValidity |-> chainValid,
        lastBlockTime |-> IF Len(c) > 0 THEN c[Len(c)].timestamp ELSE timestamp,
        pendingTransactions |-> Len(getPendingTransactions(p))]

\* A history that only grows
CollectedHistoryUnbounded(history, metrics) == Append(history, metrics)

\* The history after collectMetrics pushed a snapshot
CollectedHistory(history, metrics) ==
    LET pushed == Append(history, metrics)
    IN IF Len(pushed) > MAX_HISTORY_ITEMS THEN Tail(pushed) ELSE pushed

----------------------------------------------------------------------------
(* Inputs *)

Callers == {1, 2}

\* An invocation that has not started: its position and its local variables
IdleCall ==
    [pc |-> "idle", op |-> "none", transactions |-> <<>>, chain |-> <<>>,
     consensus |-> NoConsensus, nodes |-> <<>>, pool |-> <<>>, k |-> 0,
     result |-> "none"]

\* The transaction createTransaction returns for an id
Tx(id) ==
    createTransaction(id, TxTypes[((id - 1) % Len(TxTypes)) + 1], "voter",
                      "payload", Undefined, id % (MaxTime + 1))

TxIds == {1, 2}

TxInputs == {Tx(id) : id \in TxIds}

\* createTransaction draws each id afresh (crypto.randomUUID), so a transaction
\* handed to submitTransaction carries an id no pool entry has
FreshId(tx) == \A i \in 1..Len(pool) : pool[i].id # tx.id

\* Transaction lists handed to addBlock
TxLists == {<<>>, <<Tx(2)>>, <<Tx(1), Tx(2), Tx(1)>>}

----------------------------------------------------------------------------
(* Operations, each run to completion *)

\* What an operation leaves behind for its caller: the outcome and the value
Return(op, result, value) == last' = [op |-> op, result |-> result, value |-> value]

Done(op, result) == Return(op, result, <<>>)

initializeBlockchain ==
    /\ chain' = IF chain = <<>> THEN <<createGenesisBlock(now)>> ELSE chain
    /\ nodes' = initializeNetwork(nodes, now)
    /\ consensus' = initializeConsensus(consensus, initializeNetwork(nodes, now))
    /\ Done("initializeBlockchain", "ok")
    /\ UNCHANGED <<contracts, metricsHistory, pool, now, calls>>

\* A submitTransaction whose capacity test lets one entry too many in
submitTransactionOffByOne(tx) ==
    /\ IF validateTransaction(tx) # "valid"
       THEN /\ Return("submitTransaction", "Transaction validation failed",
                   <<validateTransaction(tx)>>)
            /\ UNCHANGED pool
       ELSE IF Len(pool) > MAX_POOL_SIZE
       THEN /\ Done("submitTransaction", "Transaction pool is full")
            /\ UNCHANGED pool
       ELSE /\ pool' = Append(pool, tx)
            /\ Done("submitTransaction", "ok")
    /\ UNCHANGED <<contracts, metricsHistory, chain, nodes, consensus, now, calls>>

submitTransaction(tx) ==
    /\ IF validateTransaction(tx) # "valid"
       THEN /\ Return("submitTransaction", "Transaction validation failed",
                   <<validateTransaction(tx)>>)
            /\ UNCHANGED pool
       ELSE IF Len(pool) >= MAX_POOL_SIZE
       THEN /\ Done("submitTransaction", "Transaction pool is full")
            /\ UNCHANGED pool
       ELSE /\ pool' = Append(pool, tx)
            /\ Done("submitTransaction", "ok")
    /\ UNCHANGED <<contracts, metricsHistory, chain, nodes, consensus, now, calls>>

markTransactionConfirmed(transactionId, blockIndex, gasUsed) ==
    /\ pool' = MarkConfirmedPool(pool, transactionId, blockIndex, gasUsed)
    /\ Done("markTransactionConfirmed", "ok")
    /\ UNCHANGED <<contracts, metricsHistory, chain, nodes, consensus, now, calls>>

markTransactionFailed(transactionId) ==
    /\ pool' = MarkFailedPool(pool, transactionId)
    /\ Done("markTransactionFailed", "ok")
    /\ UNCHANGED <<contracts, metricsHistory, chain, nodes, consensus, now, calls>>

clearConfirmedTransactions(olderThan) ==
    /\ pool' = ClearConfirmedPool(pool, olderThan)
    /\ Return("clearConfirmedTransactions", "ok",
              <<Len(pool) - Len(ClearConfirmedPool(pool, olderThan))>>)
    /\ UNCHANGED <<contracts, metricsHistory, chain, nodes, consensus, now, calls>>

addBlockAs(op, transactions) ==
    IF chain = <<>>
    THEN /\ Done(op, "TypeError")
         /\ UNCHANGED <<contracts, metricsHistory, chain, nodes, consensus, pool, now, calls>>
    ELSE LET previousBlock == Tip(chain)
             cons == getConsensusState(consensus)
             candidate == NewBlock(previousBlock, cons, transactions, now)
         IN \E nonce \in CandidateNonces(candidate, cons) :
               LET newBlock == SealBlock(candidate, nonce)
                   verdict == validateBlock(newBlock, previousBlock)
                   updated == updateValidatorStats(nodes, newBlock.validator, now)
               IN IF verdict # "valid"
                  THEN /\ Done(op, verdict)
                       /\ UNCHANGED <<contracts, metricsHistory, chain, nodes, consensus, pool, now, calls>>
                  ELSE /\ chain' = PushBlock(chain, newBlock)
                       /\ nodes' = updated
                       /\ consensus' = rotateValidator(consensus, updated)
                       /\ pool' = ConfirmAll(pool, transactions, newBlock.index)
                       /\ Done(op, "ok")
                       /\ UNCHANGED <<contracts, metricsHistory, now, calls>>

addBlock(transactions) == addBlockAs("addBlock", transactions)

processTransactionBatch ==
    LET batch == getBatchForProcessing(pool)
    IN IF Len(batch) = 0
       THEN /\ Done("processTransactionBatch", "null")
            /\ UNCHANGED <<contracts, metricsHistory, chain, nodes, consensus, pool, now, calls>>
       ELSE addBlockAs("processTransactionBatch", batch)

\* SmartContractService.initialize
initializeContracts ==
    /\ contracts' = DefaultContracts(contracts, now)
    /\ Done("initializeContracts", "ok")
    /\ UNCHANGED <<chain, nodes, consensus, pool, metricsHistory, now, calls>>

deployContract(type, code) ==
    /\ contracts' = DeployedContracts(contracts, type, code, now)
    /\ Return("deployContract", "ok", <<Len(contracts) + 1>>)
    /\ UNCHANGED <<chain, nodes, consensus, pool, metricsHistory, now, calls>>

\* The call func(...args) raises when func is undefined, and when the body
\* reads a property of an argument that was not passed
BodyRaises(func, args) == func = Undefined \/ args = <<>>

\* An executeContract that counts the execution before it calls the body
ContractExecutionCountedFirst(cs, contractId, args, timestamp) ==
    LET index == FindIndex(cs, contractId)
        counted == IF index = 0 THEN cs
                   ELSE UpdatedContracts(cs,
                           [cs[index] EXCEPT !.executionCount = @ + 1,
                                             !.lastExecuted = timestamp])
    IN IF index = 0
       THEN [error |-> "Contract not found", func |-> Undefined, contracts |-> cs]
       ELSE IF ~cs[index].isActive
       THEN [error |-> "Contract is not active", func |-> Undefined, contracts |-> cs]
       ELSE IF BodyRaises(CompiledFunction(cs[index].code), args)
       THEN [error |-> "Contract execution failed", func |-> Undefined,
             contracts |-> counted]
       ELSE [error |-> "none", func |-> CompiledFunction(cs[index].code),
             contracts |-> counted]

\* executeContract: what it raises ("none" if it returns) and the table it
\* leaves
ContractExecution(cs, contractId, args, timestamp) ==
    LET index == FindIndex(cs, contractId)
    IN IF index = 0
       THEN [error |-> "Contract not found", func |-> Undefined, contracts |-> cs]
       ELSE IF ~cs[index].isActive
       THEN [error |-> "Contract is not active", func |-> Undefined, contracts |-> cs]
       ELSE IF BodyRaises(CompiledFunction(cs[index].code), args)
       THEN [error |-> "Contract execution failed", func |-> Undefined, contracts |-> cs]
       ELSE [error |-> "none", func |-> CompiledFunction(cs[index].code),
             contracts |-> UpdatedContracts(cs,
                              [cs[index] EXCEPT !.executionCount = @ + 1,
                                                !.lastExecuted = timestamp])]

executeContract(contractId, args) ==
    LET execution == ContractExecution(contracts, contractId, args, now)
    IN /\ contracts' = execution.contracts
       /\ Return("executeContract",
                 IF execution.error = "none" THEN "ok" ELSE execution.error,
                 <<contractId>>)
       /\ UNCHANGED <<chain, nodes, consensus, pool, metricsHistory, now, calls>>

deactivateContract(contractId) ==
    LET index == FindIndex(contracts, contractId)
    IN /\ contracts' = IF index = 0 THEN contracts
                       ELSE UpdatedContracts(contracts, [contracts[index] EXCEPT !.isActive = FALSE])
       /\ Done("deactivateContract", "ok")
       /\ UNCHANGED <<chain, nodes, consensus, pool, metricsHistory, now, calls>>

collectMetrics ==
    /\ metricsHistory' = CollectedHistory(metricsHistory,
                            getRealtimeMetrics(chain, pool, nodes, consensus, now))
    /\ Done("collectMetrics", "ok")
    /\ UNCHANGED <<chain, nodes, consensus, pool, contracts, now, calls>>

\* A getRealtimeMetrics that also records the snapshot it returns
readRealtimeMetricsRecorded ==
    /\ Return("getRealtimeMetrics", "ok",
              <<getRealtimeMetrics(chain, pool, nodes, consensus, now)>>)
    /\ metricsHistory' = CollectedHistory(metricsHistory,
                            getRealtimeMetrics(chain, pool, nodes, consensus, now))
    /\ UNCHANGED <<chain, nodes, consensus, pool, contracts, now, calls>>

\* A call of getRealtimeMetrics: everything is read, the snapshot returned
readRealtimeMetrics ==
    /\ Return("getRealtimeMetrics", "ok",
              <<getRealtimeMetrics(chain, pool, nodes, consensus, now)>>)
    /\ UNCHANGED <<chain, nodes, consensus, pool, contracts, metricsHistory, now, calls>>

\* Time passes between operations
Tick ==
    /\ now < MaxTime
    /\ now' = now + 1
    /\ UNCHANGED <<contracts, metricsHistory, chain, nodes, consensus, pool, last, calls>>

----------------------------------------------------------------------------
(* The ledger and the pool, one operation at a time *)

Init ==
    /\ chain = <<>>
    /\ nodes = <<>>
    /\ consensus = NoConsensus
    /\ pool = <<>>
    /\ contracts = <<>>
    /\ metricsHistory = <<>>
    /\ now = 0
    /\ last = [op |-> "none", result |-> "none", value |-> <<>>]
    /\ calls = [c \in Callers |-> IdleCall]

DoInitialize == initializeBlockchain

DoSubmit == \E tx \in TxInputs : FreshId(tx) /\ submitTransaction(tx)

DoMarkConfirmed == \E id \in TxIds : markTransactionConfirmed(id, 1, 0)

DoMarkFailed == \E id \in TxIds : markTransactionFailed(id)

DoClear == \E olderThan \in 0..MaxTime : clearConfirmedTransactions(olderThan)

DoAddBlock == \E transactions \in TxLists : Len(chain) < MaxChain /\ addBlock(transactions)

DoProcessBatch == Len(chain) < MaxChain /\ processTransactionBatch

Next ==
    \/ DoInitialize
    \/ DoSubmit
    \/ DoMarkConfirmed
    \/ DoMarkFailed
    \/ DoClear
    \/ DoAddBlock
    \/ DoProcessBatch

Spec == Init /\ [][Next]_vars

----------------------------------------------------------------------------
(* Rotation: the ledger over node tables with M active validators *)

MaxRotChain == 5    \* blocks in the chain of the rotation specification

\* Node tables in which an operator has switched some validators off before
\* the consensus record is seeded
NodeTables ==
    {[i \in 1..6 |-> IF i \in off
                     THEN [initializeNetwork(<<>>, 0)[i] EXCEPT !.status = "inactive"]
                     ELSE initializeNetwork(<<>>, 0)[i]] : off \in SUBSET {2, 3}}

InitRotation ==
    /\ chain = <<>>
    /\ nodes \in NodeTables
    /\ consensus = NoConsensus
    /\ pool = <<>>
    /\ contracts = <<>>
    /\ metricsHistory = <<>>
    /\ now = 0
    /\ last = [op |-> "none", result |-> "none", value |-> <<>>]
    /\ calls = [c \in Callers |-> IdleCall]

RotSubmit == FreshId(Tx(1)) /\ submitTransaction(Tx(1))

RotAddBlock ==
    \E transactions \in {<<>>, <<Tx(2)>>} :
        Len(chain) < MaxRotChain /\ addBlock(transactions)

RotProcessBatch == Len(chain) < MaxRotChain /\ processTransactionBatch

NextRotation ==
    \/ DoInitialize
    \/ RotSubmit
    \/ RotAddBlock
    \/ RotProcessBatch
    \/ Tick

SpecRotation == InitRotation /\ [][NextRotation]_vars

----------------------------------------------------------------------------
(* Interleaving: addBlock and processTransactionBatch as the sequence of     *)
(* storage reads and writes they await, two invocations at a time           *)

\* The next position of the confirmation loop once entry k is dealt with
AfterConfirm(call, k) ==
    IF k >= Len(call.transactions)
    THEN [call EXCEPT !.pc = "done", !.result = "ok", !.k = k]
    ELSE [call EXCEPT !.pc = "confirmRead", !.k = k + 1]

StartAddBlock(c, transactions) ==
    /\ calls[c].pc = "idle"
    /\ calls' = [calls EXCEPT ![c] = [@ EXCEPT !.pc = "readChain", !.op = "addBlock",
                                               !.transactions = transactions]]
    /\ UNCHANGED <<contracts, metricsHistory, chain, nodes, consensus, pool, now, last>>

StartProcessBatch(c) ==
    /\ calls[c].pc = "idle"
    /\ calls' = [calls EXCEPT ![c] = [@ EXCEPT !.pc = "batchRead",
                                               !.op = "processTransactionBatch"]]
    /\ UNCHANGED <<contracts, metricsHistory, chain, nodes, consensus, pool, now, last>>

\* processTransactionBatch: getBatchForProcessing reads the pool
BatchRead(c) ==
    /\ calls[c].pc = "batchRead"
    /\ LET batch == getBatchForProcessing(pool)
       IN calls' = [calls EXCEPT ![c] =
                       IF Len(batch) = 0
                       THEN [@ EXCEPT !.pc = "done", !.result = "null"]
                       ELSE [@ EXCEPT !.pc = "readChain", !.transactions = batch]]
    /\ UNCHANGED <<contracts, metricsHistory, chain, nodes, consensus, pool, now, last>>

\* addBlock: getBlockchain reads the chain
ReadChain(c) ==
    /\ calls[c].pc = "readChain"
    /\ calls' = [calls EXCEPT ![c] = [@ EXCEPT !.pc = "readConsensus", !.chain = chain]]
    /\ UNCHANGED <<contracts, metricsHistory, chain, nodes, consensus, pool, now, last>>

\* addBlock: getConsensusState reads the consensus record; the candidate is
\* built, sealed, validated and pushed onto the local copy of the chain
ReadConsensus(c) ==
    /\ calls[c].pc = "readConsensus"
    /\ IF calls[c].chain = <<>>
       THEN calls' = [calls EXCEPT ![c] = [@ EXCEPT !.pc = "done", !.result = "TypeError"]]
       ELSE LET previousBlock == Tip(calls[c].chain)
                cons == getConsensusState(consensus)
                candidate == NewBlock(previousBlock, cons, calls[c].transactions, now)
            IN \E nonce \in CandidateNonces(candidate, cons) :
                  LET newBlock == SealBlock(candidate, nonce)
                      verdict == validateBlock(newBlock, previousBlock)
                  IN calls' = [calls EXCEPT ![c] =
                        IF verdict # "valid"
                        THEN [@ EXCEPT !.pc = "done", !.result = verdict]
                        ELSE [@ EXCEPT !.pc = "writeChain", !.consensus = cons,
                                       !.chain = PushBlock(@, newBlock)]]
    /\ UNCHANGED <<contracts, metricsHistory, chain, nodes, consensus, pool, now, last>>

\* addBlock: setItem writes the local copy of the chain
WriteChain(c) ==
    /\ calls[c].pc = "writeChain"
    /\ chain' = calls[c].chain
    /\ calls' = [calls EXCEPT ![c] = [@ EXCEPT !.pc = "statsRead"]]
    /\ UNCHANGED <<contracts, metricsHistory, nodes, consensus, pool, now, last>>

\* updateValidatorStats: getNodes reads the node table
StatsRead(c) ==
    /\ calls[c].pc = "statsRead"
    /\ LET validatorId == Tip(calls[c].chain).validator
       IN calls' = [calls EXCEPT ![c] =
             IF FindIndex(nodes, validatorId) = 0
             THEN [@ EXCEPT !.pc = "rotateReadConsensus"]
             ELSE [@ EXCEPT !.pc = "statsWrite",
                            !.nodes = updateValidatorStats(nodes, validatorId, now)]]
    /\ UNCHANGED <<contracts, metricsHistory, chain, nodes, consensus, pool, now, last>>

\* updateValidatorStats: setItem writes the node table
StatsWrite(c) ==
    /\ calls[c].pc = "statsWrite"
    /\ nodes' = calls[c].nodes
    /\ calls' = [calls EXCEPT ![c] = [@ EXCEPT !.pc = "rotateReadConsensus"]]
    /\ UNCHANGED <<contracts, metricsHistory, chain, consensus, pool, now, last>>

\* rotateValidator: getConsensusState reads the consensus record
RotateReadConsensus(c) ==
    /\ calls[c].pc = "rotateReadConsensus"
    /\ calls' = [calls EXCEPT ![c] = [@ EXCEPT !.pc = "rotateReadNodes",
                                               !.consensus = getConsensusState(consensus)]]
    /\ UNCHANGED <<contracts, metricsHistory, chain, nodes, consensus, pool, now, last>>

\* rotateValidator: getActiveValidators reads the node table
RotateReadNodes(c) ==
    /\ calls[c].pc = "rotateReadNodes"
    /\ calls' = [calls EXCEPT ![c] =
          IF Len(getActiveValidators(nodes)) = 0
          THEN AfterConfirm(@, 0)
          ELSE [@ EXCEPT !.pc = "rotateWrite",
                         !.consensus = rotateValidator(@, nodes)]]
    /\ UNCHANGED <<contracts, metricsHistory, chain, nodes, consensus, pool, now, last>>

\* rotateValidator: setItem writes the consensus record
RotateWrite(c) ==
    /\ calls[c].pc = "rotateWrite"
    /\ consensus' = calls[c].consensus
    /\ calls' = [calls EXCEPT ![c] = AfterConfirm(@, 0)]
    /\ UNCHANGED <<contracts, metricsHistory, chain, nodes, pool, now, last>>

\* markTransactionConfirmed: getTransactionPool reads the pool
ConfirmRead(c) ==
    /\ calls[c].pc = "confirmRead"
    /\ LET call == calls[c]
           transaction == call.transactions[call.k]
       IN calls' = [calls EXCEPT ![c] =
             IF FindIndex(pool, transaction.id) = 0
             THEN AfterConfirm(@, call.k)
             ELSE [@ EXCEPT !.pc = "confirmWrite",
                            !.pool = MarkConfirmedPool(pool, transaction.id,
                                                       Tip(call.chain).index,
                                                       transaction.gasUsed)]]
    /\ UNCHANGED <<contracts, metricsHistory, chain, nodes, consensus, pool, now, last>>

\* markTransactionConfirmed: setItem writes the pool
ConfirmWrite(c) ==
    /\ calls[c].pc = "confirmWrite"
    /\ pool' = calls[c].pool
    /\ calls' = [calls EXCEPT ![c] = AfterConfirm(@, @.k)]
    /\ UNCHANGED <<contracts, metricsHistory, chain, nodes, consensus, now, last>>

\* An initialized ledger with pending transactions in the pool
InitRace ==
    /\ chain = <<createGenesisBlock(0)>>
    /\ nodes = initializeNetwork(<<>>, 0)
    /\ consensus = InitialConsensus(nodes)
    /\ pool \in {<<Tx(1)>>, <<Tx(1), Tx(2)>>}
    /\ contracts = <<>>
    /\ metricsHistory = <<>>
    /\ now = 0
    /\ last = [op |-> "initializeBlockchain", result |-> "ok", value |-> <<>>]
    /\ calls = [c \in Callers |-> IdleCall]

RaceStartAddBlock == \E c \in Callers, transactions \in {<<>>, <<Tx(1)>>} : StartAddBlock(c, transactions)
RaceStartProcessBatch == \E c \in Callers : StartProcessBatch(c)
RaceBatchRead == \E c \in Callers : BatchRead(c)
RaceReadChain == \E c \in Callers : ReadChain(c)
RaceReadConsensus == \E c \in Callers : ReadConsensus(c)
RaceWriteChain == \E c \in Callers : WriteChain(c)
RaceStatsRead == \E c \in Callers : StatsRead(c)
RaceStatsWrite == \E c \in Callers : StatsWrite(c)
RaceRotateReadConsensus == \E c \in Callers : RotateReadConsensus(c)
RaceRotateReadNodes == \E c \in Callers : RotateReadNodes(c)
RaceRotateWrite == \E c \in Callers : RotateWrite(c)
RaceConfirmRead == \E c \in Callers : ConfirmRead(c)
RaceConfirmWrite == \E c \in Callers : ConfirmWrite(c)

NextRace ==
    \/ RaceStartAddBlock
    \/ RaceStartProcessBatch
    \/ RaceBatchRead
    \/ RaceReadChain
    \/ RaceReadConsensus
    \/ RaceWriteChain
    \/ RaceStatsRead
    \/ RaceStatsWrite
    \/ RaceRotateReadConsensus
    \/ RaceRotateReadNodes
    \/ RaceRotateWrite
    \/ RaceConfirmRead
    \/ RaceConfirmWrite
    \/ Tick

SpecRace == InitRace /\ [][NextRace]_vars

----------------------------------------------------------------------------
(* Tampering: one stored block is changed behind the ledger's back *)

MaxTamperChain == 3     \* blocks in the chain of the tampering specification

TamperKinds == {"data", "previousHash", "nonce", "addTransaction",
                "removeTransaction", "editTransaction"}

\* The block with one field changed and its hash, Merkle root and signature
\* left as they were stored
TamperedBlock(block, kind) ==
    CASE kind = "data" -> [block EXCEPT !.data = <<"tampered">>]
      [] kind = "previousHash" -> [block EXCEPT !.previousHash = <<"tampered">>]
      [] kind = "nonce" -> [block EXCEPT !.nonce = @ + 1]
      [] kind = "addTransaction" -> [block EXCEPT !.transactions = Append(@, Tx(1))]
      [] kind = "removeTransaction" ->
            [block EXCEPT !.transactions = SubSeq(@, 1, Len(@) - 1)]
      [] kind = "editTransaction" ->
            [block EXCEPT !.transactions = [@ EXCEPT ![1].data = "forged"]]

\* A write to the chain key that changes one field of the block at position i
Tamper(i, kind) ==
    /\ last.op # "tamper"
    /\ i \in 1..Len(chain)
    /\ kind \in {"removeTransaction", "editTransaction"} => chain[i].transactions # <<>>
    /\ chain' = [chain EXCEPT ![i] = TamperedBlock(@, kind)]
    /\ Return("tamper", kind, <<i - 1>>)
    /\ UNCHANGED <<contracts, metricsHistory, nodes, consensus, pool, now, calls>>

TamperInitialize == last.op # "tamper" /\ initializeBlockchain

TamperSubmit ==
    \E tx \in TxInputs : last.op # "tamper" /\ FreshId(tx) /\ submitTransaction(tx)

TamperAddBlock ==
    \E transactions \in TxLists :
        last.op # "tamper" /\ Len(chain) < MaxTamperChain /\ addBlock(transactions)

TamperProcessBatch ==
    last.op # "tamper" /\ Len(chain) < MaxTamperChain /\ processTransactionBatch

DoTamper == \E i \in 1..MaxTamperChain, kind \in TamperKinds : Tamper(i, kind)

NextTamper ==
    \/ TamperInitialize
    \/ TamperSubmit
    \/ TamperAddBlock
    \/ TamperProcessBatch
    \/ DoTamper

SpecTamper == Init /\ [][NextTamper]_vars

----------------------------------------------------------------------------
(* Capacity: the pool operations on a pool that is almost full *)

PoolRoom == 2       \* free entries of the fullest-but-PoolRoom initial pool

\* The i-th transaction of a pool filled by earlier submissions: the first
\* was confirmed since, the second failed, the others are still pending
Filler(i) ==
    LET tx == createTransaction(Cardinality(TxIds) + i, "vote", "voter", "payload", Undefined, 0)
    IN IF i = 1 THEN [tx EXCEPT !.status = "confirmed", !.blockIndex = 1]
       ELSE IF i = 2 THEN [tx EXCEPT !.status = "failed"]
       ELSE tx

InitPool ==
    /\ chain = <<>>
    /\ nodes = <<>>
    /\ consensus = NoConsensus
    /\ \E n \in (MAX_POOL_SIZE - PoolRoom)..MAX_POOL_SIZE : pool = [i \in 1..n |-> Filler(i)]
    /\ contracts = <<>>
    /\ metricsHistory = <<>>
    /\ now = 0
    /\ last = [op |-> "none", result |-> "none", value |-> <<>>]
    /\ calls = [c \in Callers |-> IdleCall]

PoolSubmit == \E tx \in {Tx(1), Tx(2)} : submitTransaction(tx)

PoolMarkConfirmed == \E id \in {1, 2} : markTransactionConfirmed(id, 1, 0)

PoolMarkFailed == \E id \in {1, 2} : markTransactionFailed(id)

PoolClear == clearConfirmedTransactions(MaxTime)

NextPool ==
    \/ PoolSubmit
    \/ PoolMarkConfirmed
    \/ PoolMarkFailed
    \/ PoolClear

SpecPool == InitPool /\ [][NextPool]_vars

----------------------------------------------------------------------------
(* Batching: getBatchForProcessing over pools of mixed types and statuses *)

MaxExtra == 3       \* pool entries beyond BATCH_SIZE in the longest pool

\* The i-th entry of a pool whose types follow stride a, whose timestamps
\* follow stride c and whose statuses follow pattern d
BatchTx(i, a, c, d) ==
    LET tx == createTransaction(i, TxTypes[((a * i) % Len(TxTypes)) + 1], "voter",
                                "payload", Undefined, (c * i) % 3)
    IN CASE d = 1 /\ i % 3 = 0 -> [tx EXCEPT !.status = "confirmed", !.blockIndex = 1]
         [] d = 2 /\ i % 2 = 0 -> [tx EXCEPT !.status = "failed"]
         [] d = 3 /\ i % 4 = 1 -> [tx EXCEPT !.status = "confirmed", !.blockIndex = 1]
         [] d = 3 /\ i % 4 = 2 -> [tx EXCEPT !.status = "failed"]
         [] OTHER -> tx

BatchPools ==
    {[i \in 1..n |-> BatchTx(i, a, c, d)] :
        n \in {0, 1, BATCH_SIZE, BATCH_SIZE + MaxExtra},
        a \in 0..4, c \in 0..2, d \in 0..3}

InitBatch ==
    /\ chain = <<>>
    /\ nodes = <<>>
    /\ consensus = NoConsensus
    /\ pool \in BatchPools
    /\ contracts = <<>>
    /\ metricsHistory = <<>>
    /\ now = 0
    /\ last = [op |-> "none", result |-> "none", value |-> <<>>]
    /\ calls = [c \in Callers |-> IdleCall]

\* A call of getBatchForProcessing: the pool is read, the batch returned
BatchGet ==
    /\ Return("getBatchForProcessing", "ok", getBatchForProcessing(pool))
    /\ UNCHANGED <<contracts, metricsHistory, chain, nodes, consensus, pool, now, calls>>

NextBatch ==
    \/ BatchGet
    \/ DoMarkConfirmed
    \/ DoMarkFailed

SpecBatch == InitBatch /\ [][NextBatch]_vars

----------------------------------------------------------------------------
(* The whole system: ledger, pool, rule engine and monitoring, one operation *)
(* at a time                                                                *)

MaxSysChain == 3        \* blocks in the chain of the system specification
MaxContracts == 1       \* table length up to which deployContract is called
MaxExecutions == 1      \* executions of one contract
MaxHistory == 1         \* snapshots in the metrics history

\* Contract ids handed to executeContract and deactivateContract
ContractIds == {1}

SysSubmit == FreshId(Tx(1)) /\ submitTransaction(Tx(1))

SysAddBlock ==
    Len(chain) < MaxSysChain /\ addBlock(<<Tx(1)>>)

SysProcessBatch == Len(chain) < MaxSysChain /\ processTransactionBatch

SysMarkFailed == markTransactionFailed(1)

SysClear == clearConfirmedTransactions(MaxTime)

SysInitContracts == initializeContracts

SysDeploy == Len(contracts) < MaxContracts /\ deployContract("custom", CodeInline("customRule"))

SysExecute ==
    \E contractId \in ContractIds, args \in {<<>>, <<"input">>} :
        /\ \A i \in 1..Len(contracts) : contracts[i].executionCount < MaxExecutions
        /\ executeContract(contractId, args)

SysDeactivate == \E contractId \in ContractIds : deactivateContract(contractId)

SysCollect == Len(metricsHistory) < MaxHistory /\ collectMetrics

SysReadMetrics == readRealtimeMetrics

NextSystem ==
    \/ DoInitialize
    \/ SysSubmit
    \/ SysAddBlock
    \/ SysProcessBatch
    \/ SysMarkFailed
    \/ SysClear
    \/ SysInitContracts
    \/ SysDeploy
    \/ SysExecute
    \/ SysDeactivate
    \/ SysCollect
    \/ SysReadMetrics

SpecSystem == Init /\ [][NextSystem]_vars

----------------------------------------------------------------------------
(* Claims *)

\* C1: after any sequence of addBlock / processTransactionBatch calls and pool
\* operations on an initialized ledger, validateBlockchain() returns true.
ChainAlwaysValid == validateBlockchain(chain)

\* A chain of three blocks, one of them with several transactions, next to a
\* pool in which a transaction was confirmed and one was marked failed
ChainAlwaysValidWitness ==
    /\ Len(chain) >= 3
    /\ \E i \in 2..Len(chain) : Len(chain[i].transactions) >= 2
    /\ \E i \in 1..Len(pool) : pool[i].status = "confirmed"
    /\ \E i \in 1..Len(pool) : pool[i].status = "failed"

\* C2: changing the payload, previousHash, nonce or transaction list of any
\* stored block, the genesis block included, without recomputing its hash and
\* Merkle root makes validateBlockchain() return false.
TamperDetected == last.op = "tamper" => ~validateBlockchain(chain)

\* What the chain walk does detect: a change to a block after the genesis block
TamperAfterGenesisDetected ==
    (last.op = "tamper" /\ last.value[1] >= 1) => ~validateBlockchain(chain)

\* C10: when two addBlock / processTransactionBatch invocations interleave at
\* their storage reads and writes, no append is lost: both blocks are in the
\* stored chain at distinct consecutive indices and the chain validates.
NoLostAppend ==
    (\A c \in Callers : calls[c].pc = "done" /\ calls[c].result = "ok") =>
        /\ Len(chain) = 1 + Cardinality(Callers)
        /\ \A c \in Callers : \E i \in 2..Len(chain) : chain[i] = Tip(calls[c].chain)
        /\ \A i \in 1..Len(chain) : chain[i].index = i - 1
        /\ validateBlockchain(chain)

\* C3: the chain is append-only: under every ledger, pool, rule-engine and
\* monitoring operation its length never decreases and every stored block
\* stays at its position with all fields unchanged.
ChainAppendOnly ==
    [][/\ Len(chain') >= Len(chain)
       /\ SubSeq(chain', 1, Len(chain)) = chain]_vars

\* A chain of three blocks next to a pool, a contract table and a metrics
\* history that operations have written
ChainAppendOnlyWitness ==
    /\ Len(chain) >= 3
    /\ \E i \in 1..Len(pool) : pool[i].status = "confirmed"
    /\ \E i \in 1..Len(contracts) : contracts[i].executionCount >= 1
    /\ \E i \in 1..Len(contracts) : ~contracts[i].isActive
    /\ Len(metricsHistory) >= 1

\* C4: with M >= 1 validators that all stay active and the authority at
\* validators[0] before any block, after N successful addBlock calls the
\* current authority is validators[N mod M].
RoundRobinAuthority ==
    (chain # <<>> /\ Len(consensus.validators) >= 1) =>
        consensus.currentValidator =
            consensus.validators[((Len(chain) - 1) % Len(consensus.validators)) + 1]

\* Four blocks after genesis over three validators: the authority has wrapped
\* around to the second validator
RoundRobinAuthorityWitness ==
    /\ Len(chain) = 5
    /\ Len(consensus.validators) = 3
    /\ last.op \in {"addBlock", "processTransactionBatch"}
    /\ consensus.currentValidator = consensus.validators[2]

\* C5: the pool never holds more than 1,000 entries: submitTransaction of a
\* valid transaction appends it when the pool holds fewer than 1,000 entries
\* of any status, and fails with a capacity error, pool unchanged, otherwise.
PoolCapacity ==
    [][/\ Len(pool) <= MAX_POOL_SIZE
       /\ Len(pool') <= MAX_POOL_SIZE
       /\ \A tx \in TxInputs :
             (validateTransaction(tx) = "valid" /\ submitTransaction(tx)) =>
                IF Len(pool) < MAX_POOL_SIZE
                THEN pool' = Append(pool, tx) /\ last'.result = "ok"
                ELSE pool' = pool /\ last'.result = "Transaction pool is full"]_vars

\* A submission was just refused by a pool of 1,000 entries of which some are
\* confirmed and some failed
PoolCapacityWitness ==
    /\ last.op = "submitTransaction"
    /\ last.result = "Transaction pool is full"
    /\ Len(pool) = MAX_POOL_SIZE
    /\ \E i \in 1..Len(pool) : pool[i].status = "confirmed"
    /\ \E i \in 1..Len(pool) : pool[i].status = "failed"
    /\ \E i \in 1..Len(pool) : pool[i].id \in TxIds

\* The order the batch is to follow: vote before smart_contract before
\* election_update before election_create before voter_register, then the
\* earlier creation timestamp
TypeRank(type) == CHOOSE k \in 1..Len(TxTypes) : TxTypes[k] = type

SortsBefore(a, b) ==
    \/ TypeRank(a.type) < TypeRank(b.type)
    \/ TypeRank(a.type) = TypeRank(b.type) /\ a.timestamp < b.timestamp

\* C6: getBatchForProcessing returns the first min(10, P) of the P pending
\* transactions in type-priority then timestamp order: only pending entries,
\* in order, and no pending entry that sorts strictly earlier is left out.
BatchIsPriorityPrefix ==
    last.op = "getBatchForProcessing" =>
        LET batch == last.value
            pending == {i \in 1..Len(pool) : pool[i].status = "pending"}
            taken == {i \in pending : \E k \in 1..Len(batch) : batch[k] = pool[i]}
        IN /\ Len(batch) = Min(10, Cardinality(pending))
           /\ Cardinality(taken) = Len(batch)
           /\ \A k \in 1..Len(batch) : \E i \in pending : batch[k] = pool[i]
           /\ \A k, l \in 1..Len(batch) : k < l => ~SortsBefore(batch[l], batch[k])
           /\ \A i \in pending \ taken, k \in 1..Len(batch) : ~SortsBefore(pool[i], batch[k])

\* A batch of 10 cut from more than 10 pending transactions of several types
\* and timestamps, in a pool that also holds confirmed and failed entries
BatchIsPriorityPrefixWitness ==
    /\ last.op = "getBatchForProcessing"
    /\ Len(last.value) = BATCH_SIZE
    /\ Cardinality({i \in 1..Len(pool) : pool[i].status = "pending"}) > BATCH_SIZE
    /\ \E i \in 1..Len(pool) : pool[i].status = "confirmed"
    /\ \E i \in 1..Len(pool) : pool[i].status = "failed"
    /\ \E k, l \in 1..Len(last.value) : last.value[k].type # last.value[l].type
    /\ \E k, l \in 1..Len(last.value) :
          /\ last.value[k].type = last.value[l].type
          /\ last.value[k].timestamp # last.value[l].timestamp

\* C7: a pool transaction only moves pending->confirmed or pending->failed; a
\* confirmed or failed transaction never changes status again.
OneWayStatus ==
    [][\A i \in 1..Len(pool) :
          (/\ Len(pool') = Len(pool)
           /\ \A j \in 1..Len(pool) : pool'[j].id = pool[j].id
           /\ pool[i].status # "pending")
          => pool'[i].status = pool[i].status]_vars

\* C8: initializeBlockchain on an initialized ledger changes neither the chain
\* (one genesis block), the six nodes nor the consensus record, also after
\* blocks were appended.
InitializeIdempotent ==
    [][(chain # <<>> /\ initializeBlockchain) =>
          /\ chain' = chain
          /\ nodes' = nodes
          /\ consensus' = consensus
          /\ Cardinality({i \in 1..Len(chain') : chain'[i].index = 0}) = 1
          /\ Len(nodes') = 6]_vars

\* initializeBlockchain has just run on a chain with blocks, moved authority
\* and a validator that has validated
InitializeIdempotentWitness ==
    /\ last.op = "initializeBlockchain"
    /\ Len(chain) >= 2
    /\ consensus.epoch >= 1
    /\ consensus.currentValidator # consensus.validators[1]
    /\ \E i \in 1..Len(nodes) : nodes[i].blocksValidated >= 1

\* The snapshot a reader takes of the chain, the pool, the node table and the
\* consensus record is whole: every transaction of a stored block that the
\* pool holds has left pending, every stored block has been counted for a
\* validator, and the authority has moved once per stored block
WholeAppend ==
    /\ \A i \in 2..Len(chain) :
          \A j \in 1..Len(chain[i].transactions), k \in 1..Len(pool) :
              pool[k].id = chain[i].transactions[j].id => pool[k].status # "pending"
    /\ Sum([i \in 1..Len(nodes) |-> nodes[i].blocksValidated]) = Len(chain) - 1
    /\ consensus.epoch = Len(chain) - 1

\* C11: a reader running next to one addBlock / processTransactionBatch never
\* observes a block in the stored chain while one of its transactions is still
\* pending in the pool or while the validator statistics and the authority
\* rotation for that block are not yet applied.
ConsistentSnapshot ==
    (\E c \in Callers : \A other \in Callers \ {c} : calls[other].pc = "idle") =>
        WholeAppend

----------------------------------------------------------------------------
(* Submission: created and malformed transactions handed to submitTransaction *)

ValIds == {1, 2}

\* The transactions createTransaction returns for a recognized type, a sender
\* and a payload
CreatedTransactions ==
    {createTransaction(id, type, "voter", "payload", to, 0) :
        id \in ValIds, type \in validTypes, to \in {Undefined, "registry"}}

\* A record in which one of the fields validateTransaction looks at is missing
\* or, for the type, is none of the five
MalformedOf(tx) ==
    {[tx EXCEPT !.id = NoId], [tx EXCEPT !.signature = NoSignature],
     [tx EXCEPT !.from = Undefined], [tx EXCEPT !.from = ""],
     [tx EXCEPT !.data = Undefined], [tx EXCEPT !.data = ""],
     [tx EXCEPT !.type = "audit"]}

MalformedTransactions == UNION {MalformedOf(tx) : tx \in {Tx(1), Tx(2)}}

\* A created transaction whose signature was replaced, and one whose payload
\* was changed after signing
ForgedTransactions ==
    {[Tx(1) EXCEPT !.signature = generateHash(<<"forged">>)],
     [Tx(1) EXCEPT !.data = "edited"]}

ValSubmitCreated ==
    \E tx \in CreatedTransactions : FreshId(tx) /\ submitTransaction(tx)

ValSubmitMalformed == \E tx \in MalformedTransactions : submitTransaction(tx)

ValSubmitForged ==
    \E tx \in ForgedTransactions : FreshId(tx) /\ submitTransaction(tx)

NextValidate ==
    \/ ValSubmitCreated
    \/ ValSubmitMalformed
    \/ ValSubmitForged
    \/ DoMarkConfirmed
    \/ DoMarkFailed

SpecValidate == Init /\ [][NextValidate]_vars

\* What the claim calls a transaction that fails validation
FailsValidation(tx) ==
    \/ tx.id = NoId
    \/ tx.signature = NoSignature
    \/ tx.from \in {Undefined, ""}
    \/ tx.data \in {Undefined, ""}
    \/ tx.type \notin {"vote", "election_create", "election_update",
                       "voter_register", "smart_contract"}

\* C12: submitTransaction of a transaction with id, signature, sender or
\* payload absent or with an unrecognized type reports a validation failure
\* and leaves the pool unchanged; a transaction returned by createTransaction
\* with a recognized type, a sender and a payload passes validateTransaction.
SubmitValidates ==
    [][/\ \A tx \in MalformedTransactions :
             (FailsValidation(tx) /\ submitTransaction(tx)) =>
                 /\ last'.result = "Transaction validation failed"
                 /\ pool' = pool
       /\ \A tx \in CreatedTransactions :
             /\ validateTransaction(tx) = "valid"
             /\ submitTransaction(tx) => last'.result = "ok" /\ pool' = Append(pool, tx)]_vars

\* A transaction without payload was refused next to a pool that earlier
\* submissions filled
SubmitValidatesWitness ==
    /\ last.op = "submitTransaction"
    /\ last.result = "Transaction validation failed"
    /\ last.value = <<"Missing transaction data">>
    /\ Len(pool) >= 2

----------------------------------------------------------------------------
(* Claims on the pool *)

\* The pool without its confirmed transactions created strictly before the
\* cutoff
WithoutOlderConfirmed(p, cutoff) ==
    SelectSeq(p, LAMBDA tx : ~(tx.status = "confirmed" /\ tx.timestamp < cutoff))

\* C13: clearConfirmedTransactions(cutoff) removes exactly the confirmed
\* transactions created strictly before the cutoff, keeps every other entry
\* unchanged and in order, and returns the number of entries removed.
ClearRemovesExactlyOlder ==
    [][\A cutoff \in 0..MaxTime :
          clearConfirmedTransactions(cutoff) =>
              /\ pool' = WithoutOlderConfirmed(pool, cutoff)
              /\ last'.value = <<Len(pool) - Len(pool')>>]_vars

\* C14: every transaction held in the pool carries the signature recomputed
\* over its id, type, from, to, data and timestamp: submitTransaction admits
\* no transaction whose signature does not verify and no pool operation
\* breaks this.
PoolSignaturesVerify ==
    \A i \in 1..Len(pool) : verifyTransactionSignature(pool[i])

----------------------------------------------------------------------------
(* Rule engine: the built-in procedures run through the contract table *)

HOURS_PER_DAY == 24     \* the divisor 1000 * 60 * 60 * 24, dates counted in hours
MIN_CANDIDATES == 2
MAX_DURATION_DAYS == 365

\* ratio < bound
Below(ratio, bound) == ratio.num < bound * ratio.den

\* The body of the election_rules contract
validateElectionRules(election) ==
    IF Len(election.candidates) < MIN_CANDIDATES
    THEN [valid |-> FALSE, reason |-> "Insufficient candidates"]
    ELSE LET duration == Ratio(election.endDate - election.startDate, HOURS_PER_DAY)
         IN IF Exceeds(duration, MAX_DURATION_DAYS) \/ Below(duration, 1)
            THEN [valid |-> FALSE, reason |-> "Invalid election duration"]
            ELSE [valid |-> TRUE, reason |-> Undefined]

\* A lookup that takes the latest deployment of the type
NewestActiveOfType(cs, type) ==
    IF \E i \in 1..Len(cs) : cs[i].type = type /\ cs[i].isActive
    THEN CHOOSE i \in 1..Len(cs) :
            /\ cs[i].type = type /\ cs[i].isActive
            /\ \A j \in (i + 1)..Len(cs) : ~(cs[j].type = type /\ cs[j].isActive)
    ELSE 0

\* contracts.find(c => c.type === type && c.isActive): its position, 0 if none
ActiveOfType(cs, type) ==
    IF \E i \in 1..Len(cs) : cs[i].type = type /\ cs[i].isActive
    THEN CHOOSE i \in 1..Len(cs) :
            /\ cs[i].type = type /\ cs[i].isActive
            /\ \A j \in 1..(i - 1) : ~(cs[j].type = type /\ cs[j].isActive)
    ELSE 0

\* The body of the voting_validation contract; hasVoted and eligibleElections
\* are the sets of election ids
validateVoteBody(vote, voter, election, timestamp) ==
    IF ~voter.isVerified \/ ~voter.isActive
    THEN [valid |-> FALSE, reason |-> "Voter not verified or inactive"]
    ELSE IF election.id \in voter.hasVoted
    THEN [valid |-> FALSE, reason |-> "Voter has already voted in this election"]
    ELSE IF election.id \notin voter.eligibleElections
    THEN [valid |-> FALSE, reason |-> "Voter not eligible for this election"]
    ELSE IF timestamp < election.startDate \/ timestamp > election.endDate
    THEN [valid |-> FALSE, reason |-> "Election not active"]
    ELSE [valid |-> TRUE, reason |-> Undefined]

\* executeContractByType: contracts.find, then executeContract
ContractExecutionByType(cs, type, args, timestamp) ==
    LET index == ActiveOfType(cs, type)
    IN IF index = 0
       THEN [error |-> "No active contract found", func |-> Undefined, contracts |-> cs]
       ELSE ContractExecution(cs, cs[index].id, args, timestamp)

executeContractByType(type, args) ==
    LET execution == ContractExecutionByType(contracts, type, args, now)
    IN /\ contracts' = execution.contracts
       /\ Return("executeContractByType",
                 IF execution.error = "none" THEN "ok" ELSE execution.error,
                 <<type, ActiveOfType(contracts, type)>>)
       /\ UNCHANGED <<chain, nodes, consensus, pool, metricsHistory, now, calls>>

InvalidVerdict == [valid |-> FALSE, reason |-> "Validation failed"]

validateElection(election) ==
    LET execution == ContractExecutionByType(contracts, "election_rules", <<election>>, now)
    IN /\ contracts' = execution.contracts
       /\ IF execution.error = "none"
          THEN Return("validateElection", "ok",
                      <<election,
                        IF execution.func = "validateElectionRules"
                        THEN validateElectionRules(election) ELSE Undefined,
                        execution.error>>)
          ELSE Return("validateElection", "caught",
                      <<election, InvalidVerdict, execution.error>>)
       /\ UNCHANGED <<chain, nodes, consensus, pool, metricsHistory, now, calls>>

validateVote(vote, voter, election) ==
    LET execution == ContractExecutionByType(contracts, "voting_validation",
                                             <<vote, voter, election>>, now)
    IN /\ contracts' = execution.contracts
       /\ IF execution.error = "none"
          THEN Return("validateVote", "ok",
                      <<voter, election,
                        IF execution.func = "validateVote"
                        THEN validateVoteBody(vote, voter, election, now) ELSE Undefined,
                        execution.error>>)
          ELSE Return("validateVote", "caught",
                      <<voter, election, InvalidVerdict, execution.error>>)
       /\ UNCHANGED <<chain, nodes, consensus, pool, metricsHistory, now, calls>>

\* Elections handed to validateElection: 0 to 3 candidates, and a start and an
\* end date that are -1 day, 0, 12 hours, 1 day, 2 days, 365 days, 365 days and
\* an hour, and 400 days apart
Candidate(id) == [id |-> id, name |-> <<"name", id>>, party |-> <<"party", id>>]

CandidateLists ==
    {<<>>, <<Candidate("A")>>, <<Candidate("A"), Candidate("B")>>,
     <<Candidate("B"), Candidate("A")>>,
     <<Candidate("A"), Candidate("B"), Candidate("C")>>}

ElectionSpans ==
    {-HOURS_PER_DAY, 0, 12, HOURS_PER_DAY, 2 * HOURS_PER_DAY,
     365 * HOURS_PER_DAY, 365 * HOURS_PER_DAY + 1, 400 * HOURS_PER_DAY}

Elections ==
    {[candidates |-> candidates, startDate |-> 48, endDate |-> 48 + span] :
        candidates \in CandidateLists, span \in ElectionSpans}

\* voteCounts[candidateId] after the forEach over the votes
CountVotes(votes, candidateId) ==
    Len(SelectSeq(votes, LAMBDA vote : vote.candidateId = candidateId))

\* results.sort((a, b) => b.voteCount - a.voteCount): a stable sort, the
\* larger count first
RECURSIVE InsertResult(_, _)
InsertResult(sorted, entry) ==
    IF sorted = <<>> THEN <<entry>>
    ELSE IF Head(sorted).voteCount < entry.voteCount
    THEN <<entry>> \o sorted
    ELSE <<Head(sorted)>> \o InsertResult(Tail(sorted), entry)

RECURSIVE SortResultsFrom(_, _)
SortResultsFrom(sorted, rest) ==
    IF rest = <<>> THEN sorted
    ELSE SortResultsFrom(InsertResult(sorted, Head(rest)), Tail(rest))

SortResults(results) == SortResultsFrom(<<>>, results)

\* The body of the result_calculation contract
calculateResults(votes, candidates) ==
    LET totalVotes == Len(votes)
        results ==
            [i \in 1..Len(candidates) |->
                [candidateId |-> candidates[i].id,
                 candidateName |-> candidates[i].name,
                 party |-> candidates[i].party,
                 voteCount |-> CountVotes(votes, candidates[i].id),
                 percentage |-> IF totalVotes > 0
                                THEN Ratio(CountVotes(votes, candidates[i].id) * 100, totalVotes)
                                ELSE Zero]]
        sorted == SortResults(results)
    IN [results |-> sorted, totalVotes |-> totalVotes,
        winner |-> IF sorted = <<>> THEN Undefined ELSE sorted[1]]

\* The catch block raises what it caught
calculateElectionResults(votes, candidates) ==
    LET execution == ContractExecutionByType(contracts, "result_calculation",
                                             <<votes, candidates>>, now)
    IN /\ contracts' = execution.contracts
       /\ IF execution.error = "none"
          THEN Return("calculateElectionResults", "ok",
                      <<votes, candidates,
                        IF execution.func = "calculateResults"
                        THEN calculateResults(votes, candidates) ELSE Undefined>>)
          ELSE Return("calculateElectionResults", execution.error, <<votes, candidates>>)
       /\ UNCHANGED <<chain, nodes, consensus, pool, metricsHistory, now, calls>>

MaxVotes == 3       \* votes handed to calculateElectionResults

\* Vote lists: every sequence of up to MaxVotes votes for A, B or a candidate
\* that is not on the list
RECURSIVE VoteListsOfLength(_)
VoteListsOfLength(n) ==
    IF n = 0 THEN {<<>>}
    ELSE {Append(votes, [candidateId |-> id]) :
             votes \in VoteListsOfLength(n - 1), id \in {"A", "B", "X"}}

VoteLists == UNION {VoteListsOfLength(n) : n \in 0..MaxVotes}

\* Voters and elections handed to validateVote: every combination of the
\* voter's flags, and an election that is open, not yet open, or closed at the
\* time of the call
Voters ==
    [isVerified : BOOLEAN, isActive : BOOLEAN,
     hasVoted : {{}, {"E1"}}, eligibleElections : {{}, {"E1"}}]

VoteElections ==
    {[id |-> "E1", startDate |-> window[1], endDate |-> window[2]] :
        window \in {<<-1, 1>>, <<1, 2>>, <<-2, -1>>}}

\* The three built-in procedures, deployed a second time with the function at
\* the start of the code text
BuiltIns ==
    {<<"election_rules", "validateElectionRules">>,
     <<"voting_validation", "validateVote">>,
     <<"result_calculation", "calculateResults">>}

MaxInline == 1      \* contracts deployed with inline code

InlineContracts(cs) == {i \in 1..Len(cs) : cs[i].code[1] # ""}

RulesInitContracts == initializeContracts

RulesDeploy ==
    \E builtIn \in BuiltIns :
        /\ Cardinality(InlineContracts(contracts)) < MaxInline
        /\ deployContract(builtIn[1], CodeInline(builtIn[2]))

\* Deactivation of the election_rules or the result_calculation contract
RulesDeactivate == \E contractId \in {1, 3} : deactivateContract(contractId)

RulesValidateElection ==
    \E election \in Elections :
        /\ \A i \in 1..Len(contracts) : contracts[i].executionCount < MaxExecutions
        /\ validateElection(election)

RulesValidateVote ==
    \E voter \in Voters, election \in VoteElections :
        /\ \A i \in 1..Len(contracts) : contracts[i].executionCount < MaxExecutions
        /\ validateVote([candidateId |-> "A"], voter, election)

RulesCalculateResults ==
    \E votes \in VoteLists, candidates \in CandidateLists :
        /\ \A i \in 1..Len(contracts) : contracts[i].executionCount < MaxExecutions
        /\ calculateElectionResults(votes, candidates)

RulesExecuteByType ==
    \E type \in {builtIn[1] : builtIn \in BuiltIns}, args \in {<<>>, <<"input">>} :
        /\ \A i \in 1..Len(contracts) : contracts[i].executionCount < MaxExecutions
        /\ executeContractByType(type, args)

NextRules ==
    \/ RulesInitContracts
    \/ RulesDeploy
    \/ RulesDeactivate
    \/ RulesValidateElection
    \/ RulesValidateVote
    \/ RulesCalculateResults
    \/ RulesExecuteByType

SpecRules == Init /\ [][NextRules]_vars

\* C15: the election_rules procedure accepts an election exactly if it has at
\* least 2 candidates and its duration d in days satisfies 0 < d <= 365; with
\* fewer than 2 candidates the reason is the candidate count, otherwise with d
\* outside the range the reason is the duration.
ElectionRuleVerdict ==
    (last.op = "validateElection" /\ last.value[3] # "No active contract found") =>
        LET election == last.value[1]
            verdict == last.value[2]
            span == election.endDate - election.startDate
            enough == Len(election.candidates) >= 2
            inRange == 0 < span /\ span <= 365 * HOURS_PER_DAY
        IN /\ verdict.valid <=> (enough /\ inRange)
           /\ ~enough => verdict.reason = "Insufficient candidates"
           /\ (enough /\ ~inRange) => verdict.reason = "Invalid election duration"

\* Position of the candidate with the id in the candidate list
CandidatePosition(candidates, id) == FindIndex(candidates, id)

\* C16: the result_calculation procedure returns totalVotes equal to the
\* number of votes, for each candidate the number of votes naming it and the
\* percentage voteCount / totalVotes * 100 (0 without votes), the entries by
\* descending voteCount with ties in candidate order, and the first entry as
\* winner; with zero votes the winner is the first candidate.
ResultsTally ==
    (last.op = "calculateElectionResults" /\ last.result # "No active contract found") =>
      /\ last.result = "ok"
      /\ LET votes == last.value[1]
            candidates == last.value[2]
            outcome == last.value[3]
            results == outcome.results
            naming(id) == Cardinality({v \in 1..Len(votes) : votes[v].candidateId = id})
        IN /\ outcome.totalVotes = Len(votes)
           /\ Len(results) = Len(candidates)
           /\ \A i \in 1..Len(candidates) :
                 \E k \in 1..Len(results) : results[k].candidateId = candidates[i].id
           /\ \A k \in 1..Len(results) :
                 /\ results[k].voteCount = naming(results[k].candidateId)
                 /\ IF Len(votes) = 0
                    THEN results[k].percentage.num = 0
                    ELSE results[k].percentage.num * Len(votes)
                            = results[k].voteCount * 100 * results[k].percentage.den
           /\ \A k, l \in 1..Len(results) :
                 k < l =>
                    \/ results[k].voteCount > results[l].voteCount
                    \/ /\ results[k].voteCount = results[l].voteCount
                       /\ CandidatePosition(candidates, results[k].candidateId)
                            < CandidatePosition(candidates, results[l].candidateId)
           /\ candidates # <<>> => outcome.winner = results[1]
           /\ (candidates # <<>> /\ votes = <<>>) =>
                 outcome.winner.candidateId = candidates[1].id

----------------------------------------------------------------------------
(* Monitoring: metrics and health read from ledgers that earlier addBlock    *)
(* calls built                                                               *)

\* What initializeBlockchain leaves in the three ledger keys
InitialLedger(timestamp) ==
    LET ns == initializeNetwork(<<>>, timestamp)
    IN [chain |-> <<createGenesisBlock(timestamp)>>, nodes |-> ns,
        consensus |-> InitialConsensus(ns)]

\* What a successful addBlock leaves in the three ledger keys
AppendedLedger(ledger, transactions, timestamp) ==
    LET cons == getConsensusState(ledger.consensus)
        newBlock == SealBlock(NewBlock(Tip(ledger.chain), cons, transactions, timestamp), 0)
        updated == updateValidatorStats(ledger.nodes, newBlock.validator, timestamp)
    IN [chain |-> PushBlock(ledger.chain, newBlock), nodes |-> updated,
        consensus |-> rotateValidator(ledger.consensus, updated)]

\* The transactions of the i-th appended block: perBlock votes created at the
\* time of the block
BlockTransactions(i, perBlock, timestamp) ==
    [j \in 1..perBlock |->
        createTransaction(100 * i + j, "vote", "voter", "payload", Undefined, timestamp)]

\* Time of the i-th appended block: blocks are step ms apart, with a gap of
\* two steps between the first and the second
BlockStamp(i, step) == step * i + (IF i >= 2 THEN step ELSE 0)

\* The ledger after addBlock calls number from..blocks
RECURSIVE BuiltLedger(_, _, _, _, _)
BuiltLedger(ledger, from, blocks, perBlock, step) ==
    IF from > blocks THEN ledger
    ELSE BuiltLedger(AppendedLedger(ledger,
                                    BlockTransactions(from, perBlock, BlockStamp(from, step)),
                                    BlockStamp(from, step)),
                     from + 1, blocks, perBlock, step)

\* Ledgers of 1, 2, 3, 10, 11 and 12 blocks with 0 or 5 transactions a block,
\* produced in the same millisecond or a second apart
BuiltLedgers ==
    {BuiltLedger(InitialLedger(0), 1, blocks, perBlock, step) :
        blocks \in {0, 1, 2, 9, 10, 11}, perBlock \in {0, 5}, step \in {0, MS_PER_SECOND}}

ACTIVE_NODES_WARNING == 3

\* A health report that does not look at the pending transactions
getBlockchainHealthWithoutBacklog(metrics) ==
    LET invalid == ~metrics.chainValidity
        consensusCritical == metrics.consensusHealth = "critical"
        timeCritical == Exceeds(metrics.averageBlockTime, BLOCK_TIME_CRITICAL)
        timeWarning == ~timeCritical /\ Exceeds(metrics.averageBlockTime, BLOCK_TIME_WARNING)
        fewNodes == metrics.activeNodes < ACTIVE_NODES_WARNING
        issues == (IF invalid THEN <<"Blockchain integrity compromised">> ELSE <<>>)
                  \o (IF consensusCritical THEN <<"Consensus mechanism in critical state">> ELSE <<>>)
                  \o (IF timeCritical THEN <<"Block time critically high">> ELSE <<>>)
                  \o (IF timeWarning THEN <<"Block time elevated">> ELSE <<>>)
                  \o (IF fewNodes THEN <<"Low node count">> ELSE <<>>)
    IN [overall |-> IF issues = <<>> THEN "healthy"
                    ELSE IF invalid \/ consensusCritical \/ timeCritical THEN "critical"
                    ELSE "warning",
        issues |-> issues]

\* What getBlockchainHealth returns for a snapshot: the overall status and the
\* issues, in the order the tests are made
getBlockchainHealth(metrics) ==
    LET invalid == ~metrics.chainValidity
        consensusCritical == metrics.consensusHealth = "critical"
        manyPending == metrics.pendingTransactions > PENDING_CRITICAL
        timeCritical == Exceeds(metrics.averageBlockTime, BLOCK_TIME_CRITICAL)
        timeWarning == ~timeCritical /\ Exceeds(metrics.averageBlockTime, BLOCK_TIME_WARNING)
        fewNodes == metrics.activeNodes < ACTIVE_NODES_WARNING
        afterValidity == IF invalid THEN "critical" ELSE "healthy"
        afterConsensus == IF consensusCritical THEN "critical" ELSE afterValidity
        afterPending == IF manyPending /\ afterConsensus # "critical" THEN "warning"
                        ELSE afterConsensus
        afterTime == IF timeCritical THEN "critical"
                     ELSE IF timeWarning /\ afterPending = "healthy" THEN "warning"
                     ELSE afterPending
        afterNodes == IF fewNodes /\ afterTime = "healthy" THEN "warning" ELSE afterTime
        issues == (IF invalid THEN <<"Blockchain integrity compromised">> ELSE <<>>)
                  \o (IF consensusCritical THEN <<"Consensus mechanism in critical state">> ELSE <<>>)
                  \o (IF manyPending THEN <<"High pending transaction count">> ELSE <<>>)
                  \o (IF timeCritical THEN <<"Block time critically high">> ELSE <<>>)
                  \o (IF timeWarning THEN <<"Block time elevated">> ELSE <<>>)
                  \o (IF fewNodes THEN <<"Low node count">> ELSE <<>>)
    IN [overall |-> IF issues = <<>> THEN "healthy" ELSE afterNodes, issues |-> issues]

\* A call of getBlockchainHealth: the snapshot is taken, the verdict returned
readBlockchainHealth ==
    /\ LET metrics == getRealtimeMetrics(chain, pool, nodes, consensus, now)
       IN Return("getBlockchainHealth", "ok", <<metrics, getBlockchainHealth(metrics)>>)
    /\ UNCHANGED <<chain, nodes, consensus, pool, contracts, metricsHistory, now, calls>>

\* A pool of n transactions that are all pending
PendingPool(n) ==
    [i \in 1..n |-> createTransaction(10000 + i, "vote", "voter", "payload", Undefined, 0)]

PendingCounts ==
    {0, PENDING_WARNING, PENDING_WARNING + 1, PENDING_CRITICAL, PENDING_CRITICAL + 1}

MaxMonChain == 13       \* blocks in the chain of the monitoring specification

InitMonitor ==
    /\ \E ledger \in BuiltLedgers :
          /\ chain = ledger.chain
          /\ nodes = ledger.nodes
          /\ consensus = ledger.consensus
          /\ now \in {Tip(ledger.chain).timestamp,
                      Tip(ledger.chain).timestamp + MS_PER_SECOND}
    /\ \E n \in PendingCounts : pool = PendingPool(n)
    /\ contracts = <<>>
    /\ metricsHistory = <<>>
    /\ last = [op |-> "none", result |-> "none", value |-> <<>>]
    /\ calls = [c \in Callers |-> IdleCall]

MonAddBlock == Len(chain) < MaxMonChain /\ addBlock(<<>>)

MonReadMetrics == readRealtimeMetrics

MonReadHealth == readBlockchainHealth

NextMonitor ==
    \/ MonAddBlock
    \/ MonReadMetrics
    \/ MonReadHealth

SpecMonitor == InitMonitor /\ [][NextMonitor]_vars

\* C17: getRealtimeMetrics reports as transactionsPerSecond the number of
\* transactions in the last 10 blocks divided by the seconds between the first
\* and the last block of that window, and 0 when the chain has fewer than 2
\* blocks or no time elapsed.
TpsIsWindowRate ==
    last.op = "getRealtimeMetrics" =>
        LET tps == last.value[1].transactionsPerSecond
            first == IF Len(chain) > 10 THEN Len(chain) - 9 ELSE 1
            total == Sum([i \in 1..(Len(chain) - first + 1) |->
                            Len(chain[first + i - 1].transactions)])
            elapsedMs == chain[Len(chain)].timestamp - chain[first].timestamp
        IN IF Len(chain) < 2 \/ elapsedMs = 0
           THEN tps.num = 0
           ELSE tps.num * elapsedMs = total * 1000 * tps.den

\* A chain of more than 10 blocks whose last 10 blocks span 10 seconds and
\* hold 50 transactions was read as 5 transactions a second
TpsIsWindowRateWitness ==
    /\ last.op = "getRealtimeMetrics"
    /\ Len(chain) > 10
    /\ chain[Len(chain)].timestamp - chain[Len(chain) - 9].timestamp = 10000
    /\ Sum([i \in 1..10 |-> Len(chain[Len(chain) - 10 + i].transactions)]) = 50
    /\ last.value[1].transactionsPerSecond.num = 5 * last.value[1].transactionsPerSecond.den

\* Number of pending transactions in the pool
PendingInPool == Cardinality({i \in 1..Len(pool) : pool[i].status = "pending"})

\* C18: getBlockchainHealth reports overall status 'critical' whenever more
\* than 500 pool transactions are pending.
ManyPendingIsCritical ==
    (last.op = "getBlockchainHealth" /\ PendingInPool > 500) =>
        last.value[2].overall = "critical"

\* C19: getBlockchainHealth reports warning or critical, never healthy,
\* whenever more than 100 pool transactions are pending.
PendingAboveWarningIsReported ==
    (last.op = "getBlockchainHealth" /\ PendingInPool > 100) =>
        last.value[2].overall \in {"warning", "critical"}

----------------------------------------------------------------------------
(* The metrics history at its capacity *)

COLLECT_INTERVAL == 30000   \* ms between two collectMetrics calls of the timer

HistoryRoom == 2        \* free entries of the smallest history at the start
MaxCollected == 2       \* snapshots collected after the start
MaxHistChain == 2       \* blocks in the chain of the history specification

\* The i-th snapshot of a history collected by the timer before the ledger was
\* initialized
OldSnapshot(i) == getRealtimeMetrics(<<>>, <<>>, <<>>, NoConsensus, COLLECT_INTERVAL * i)

HistoryStart == COLLECT_INTERVAL * (MAX_HISTORY_ITEMS + 1)

\* Snapshots collected after the start
CollectedSinceStart ==
    Cardinality({i \in 1..Len(metricsHistory) :
                    metricsHistory[i].lastBlockTime >= HistoryStart})

InitHistory ==
    /\ chain = <<>>
    /\ nodes = <<>>
    /\ consensus = NoConsensus
    /\ pool = <<>>
    /\ contracts = <<>>
    /\ \E n \in (MAX_HISTORY_ITEMS - HistoryRoom)..MAX_HISTORY_ITEMS :
          metricsHistory = [i \in 1..n |-> OldSnapshot(i)]
    /\ now = HistoryStart
    /\ last = [op |-> "none", result |-> "none", value |-> <<>>]
    /\ calls = [c \in Callers |-> IdleCall]

HistCollect == CollectedSinceStart < MaxCollected /\ collectMetrics

HistAddBlock == Len(chain) < MaxHistChain /\ addBlock(<<>>)

HistSubmit == FreshId(Tx(1)) /\ submitTransaction(Tx(1))

NextHistory ==
    \/ HistCollect
    \/ DoInitialize
    \/ HistAddBlock
    \/ HistSubmit

SpecHistory == InitHistory /\ [][NextHistory]_vars

\* C20: the metrics history never holds more than 1,000 snapshots; each
\* collectMetrics call appends the new snapshot at the end and, when the
\* history is full, evicts exactly the oldest one, the others staying in
\* collection order.
HistoryBoundedFifo ==
    [][/\ Len(metricsHistory') <= 1000
       /\ collectMetrics =>
             LET snapshot == getRealtimeMetrics(chain, pool, nodes, consensus, now)
             IN IF Len(metricsHistory) < 1000
                THEN metricsHistory' = Append(metricsHistory, snapshot)
                ELSE metricsHistory' = Append(Tail(metricsHistory), snapshot)]_vars

\* A full history whose oldest snapshots were evicted by snapshots of an
\* initialized ledger
HistoryBoundedFifoWitness ==
    /\ last.op = "collectMetrics"
    /\ Len(metricsHistory) = 1000
    /\ metricsHistory[1] = OldSnapshot(3)
    /\ metricsHistory[999] # metricsHistory[1000]
    /\ metricsHistory[1000].totalBlocks >= 1

----------------------------------------------------------------------------
(* Claims on the failures of the rule engine *)

\* C21: on each of the three built-in paths (validateElection, validateVote,
\* calculateElectionResults) and in executeContractByType, a failed execution
\* (no active contract of the type, or the call of the body raising) comes
\* back to the caller as a result and is never raised.
EngineFailureIsResult ==
    last.op \in {"validateElection", "validateVote", "calculateElectionResults",
                 "executeContractByType"}
        => last.result \in {"ok", "caught"}

----------------------------------------------------------------------------
(* Lookups by contract id, transaction id and block index *)

getContract(contractId) ==
    LET index == FindIndex(contracts, contractId)
    IN /\ Return("getContract", IF index = 0 THEN "null" ELSE "ok",
                 <<contractId, IF index = 0 THEN Undefined ELSE contracts[index]>>)
       /\ UNCHANGED <<chain, nodes, consensus, pool, contracts, metricsHistory, now, calls>>

getTransactionById(id) ==
    LET index == FindIndex(pool, id)
    IN /\ Return("getTransactionById", IF index = 0 THEN "null" ELSE "ok",
                 <<id, IF index = 0 THEN Undefined ELSE pool[index]>>)
       /\ UNCHANGED <<chain, nodes, consensus, pool, contracts, metricsHistory, now, calls>>

\* The classification verifyTransaction returns for the first pool entry with
\* the id
TransactionVerification(c, p, transactionId) ==
    LET index == FindIndex(p, transactionId)
        unverified(status) ==
            [verified |-> FALSE, status |-> status, blockIndex |-> Undefined,
             confirmations |-> Undefined]
    IN IF index = 0 THEN unverified("not_found")
       ELSE IF p[index].status = "pending" THEN unverified("pending")
       ELSE IF p[index].status = "failed" THEN unverified("failed")
       ELSE IF p[index].blockIndex # NoBlockIndex
       THEN [verified |-> TRUE, status |-> "confirmed",
             blockIndex |-> p[index].blockIndex,
             confirmations |-> Len(c) - p[index].blockIndex]
       ELSE unverified("unknown")

verifyTransaction(transactionId) ==
    /\ Return("verifyTransaction", "ok",
              <<transactionId, TransactionVerification(chain, pool, transactionId)>>)
    /\ UNCHANGED <<chain, nodes, consensus, pool, contracts, metricsHistory, now, calls>>

\* chain.find(block => block.index === index): its position, 0 if none
BlockPosition(c, index) ==
    IF \E i \in 1..Len(c) : c[i].index = index
    THEN CHOOSE i \in 1..Len(c) :
            c[i].index = index /\ \A j \in 1..(i - 1) : c[j].index # index
    ELSE 0

getBlockByIndex(index) ==
    LET position == BlockPosition(chain, index)
    IN /\ Return("getBlockByIndex", IF position = 0 THEN "null" ELSE "ok",
                 <<index, IF position = 0 THEN Undefined ELSE chain[position]>>)
       /\ UNCHANGED <<chain, nodes, consensus, pool, contracts, metricsHistory, now, calls>>

\* What getBlockStatistics returns for a block that exists, the length of the
\* block's JSON text left out
BlockStatistics(c, block) ==
    [block |-> block, validator |-> block.validator,
     transactionCount |-> Len(block.transactions),
     totalGasUsed |-> block.gasUsed,
     confirmations |-> Len(c) - block.index]

getBlockStatistics(blockIndex) ==
    LET position == BlockPosition(chain, blockIndex)
    IN /\ Return("getBlockStatistics", IF position = 0 THEN "null" ELSE "ok",
                 <<blockIndex,
                   IF position = 0 THEN Undefined
                   ELSE BlockStatistics(chain, chain[position])>>)
       /\ UNCHANGED <<chain, nodes, consensus, pool, contracts, metricsHistory, now, calls>>

MaxLookChain == 3       \* blocks in the chain under lookups

\* Ids handed to the lookups: transaction 3 is never submitted, contract 4
\* never deployed, and no block has index -1
LookTxIds == {1, 2, 3}
LookContractIds == {1, 4}
LookBlockIndices == {-1, 0, 1, 2}

LookSubmit == \E tx \in TxInputs : FreshId(tx) /\ submitTransaction(tx)

LookProcessBatch == Len(chain) < MaxLookChain /\ processTransactionBatch

LookAddBlock == Len(chain) < MaxLookChain /\ addBlock(<<>>)

LookMarkConfirmed == \E id \in LookTxIds : markTransactionConfirmed(id, 1, 0)

LookMarkFailed == \E id \in LookTxIds : markTransactionFailed(id)

LookInitContracts == initializeContracts

LookExecute ==
    \E contractId \in LookContractIds :
        /\ \A i \in 1..Len(contracts) : contracts[i].executionCount < MaxExecutions
        /\ executeContract(contractId, <<"input">>)

LookDeactivate == \E contractId \in LookContractIds : deactivateContract(contractId)

LookGetContract == \E contractId \in LookContractIds : getContract(contractId)

LookGetTransaction == \E id \in LookTxIds : getTransactionById(id)

LookVerify == \E id \in LookTxIds : verifyTransaction(id)

LookGetBlock == \E index \in LookBlockIndices : getBlockByIndex(index)

LookBlockStatistics == \E index \in LookBlockIndices : getBlockStatistics(index)

NextLookup ==
    \/ DoInitialize
    \/ LookSubmit
    \/ LookProcessBatch
    \/ LookAddBlock
    \/ LookMarkConfirmed
    \/ LookMarkFailed
    \/ LookInitContracts
    \/ LookExecute
    \/ LookDeactivate
    \/ LookGetContract
    \/ LookGetTransaction
    \/ LookVerify
    \/ LookGetBlock
    \/ LookBlockStatistics

SpecLookup == Init /\ [][NextLookup]_vars

\* The state the ledger, the pool and the rule engine keep
StoredState == <<chain, nodes, consensus, pool, contracts, metricsHistory>>

\* C22: an operation given an unknown contract id, transaction id or block
\* index returns an empty result (null, not_found, or nothing for the
\* operations that return nothing), raises nothing and changes no state.
UnknownIdIsEmptyResult ==
    [][/\ \A contractId \in LookContractIds :
            FindIndex(contracts, contractId) = 0 =>
                /\ (last'.op = "getContract" /\ last'.value[1] = contractId) =>
                        last'.result = "null" /\ UNCHANGED StoredState
                /\ (last'.op = "executeContract" /\ last'.value[1] = contractId) =>
                        last'.result = "null" /\ UNCHANGED StoredState
                /\ (last'.op = "deactivateContract" /\ deactivateContract(contractId)) =>
                        last'.result = "ok" /\ UNCHANGED StoredState
       /\ \A id \in LookTxIds :
            FindIndex(pool, id) = 0 =>
                /\ (last'.op = "getTransactionById" /\ last'.value[1] = id) =>
                        last'.result = "null" /\ UNCHANGED StoredState
                /\ (last'.op = "verifyTransaction" /\ last'.value[1] = id) =>
                        /\ last'.result = "ok"
                        /\ last'.value[2].status = "not_found"
                        /\ UNCHANGED StoredState
                /\ (last'.op = "markTransactionConfirmed"
                        /\ markTransactionConfirmed(id, 1, 0)) =>
                        last'.result = "ok" /\ UNCHANGED StoredState
                /\ (last'.op = "markTransactionFailed" /\ markTransactionFailed(id)) =>
                        last'.result = "ok" /\ UNCHANGED StoredState
       /\ \A index \in LookBlockIndices :
            BlockPosition(chain, index) = 0 =>
                /\ (last'.op = "getBlockByIndex" /\ last'.value[1] = index) =>
                        last'.result = "null" /\ UNCHANGED StoredState
                /\ (last'.op = "getBlockStatistics" /\ last'.value[1] = index) =>
                        last'.result = "null" /\ UNCHANGED StoredState
      ]_vars

----------------------------------------------------------------------------
(* Resubmission: submitTransaction looks neither for the id in the pool nor *)
(* at the status, so a caller may hand in the same transaction twice, or a  *)
(* record it built itself                                                   *)

MaxResubmitPool == 3    \* pool entries
MaxResubmitChain == 3   \* blocks

\* A record a caller built with status confirmed and no block index
Prebuilt == [Tx(3) EXCEPT !.status = "confirmed"]

ResubmitSubmit ==
    \E tx \in TxInputs \cup {Prebuilt} :
        Len(pool) < MaxResubmitPool /\ submitTransaction(tx)

ResubmitProcessBatch == Len(chain) < MaxResubmitChain /\ processTransactionBatch

ResubmitMarkFailed == \E id \in TxIds : markTransactionFailed(id)

ResubmitVerify == \E id \in LookTxIds : verifyTransaction(id)

NextResubmit ==
    \/ DoInitialize
    \/ ResubmitSubmit
    \/ ResubmitProcessBatch
    \/ ResubmitMarkFailed
    \/ ResubmitVerify

SpecResubmit == Init /\ [][NextResubmit]_vars

----------------------------------------------------------------------------
(* Claims on batches *)

\* The pool entry at position i is one of the batch
InBatch(p, i) ==
    /\ p[i].status = "pending"
    /\ \E k \in 1..Len(getBatchForProcessing(p)) : getBatchForProcessing(p)[k] = p[i]

\* C23: on an initialized ledger processTransactionBatch with no pending
\* transaction returns null and changes neither chain, pool, node table nor
\* consensus; with a pending transaction it appends exactly one block whose
\* transaction list is the batch of getBatchForProcessing in that order, and
\* every transaction of the batch becomes confirmed with the index of the new
\* block while every other pool entry stays as it was.
BatchBecomesBlock ==
    [][(last'.op = "processTransactionBatch" /\ chain # <<>>) =>
        LET batch == getBatchForProcessing(pool)
        IN IF batch = <<>>
           THEN /\ last'.result = "null"
                /\ UNCHANGED <<chain, pool, nodes, consensus>>
           ELSE /\ last'.result = "ok"
                /\ Len(chain') = Len(chain) + 1
                /\ SubSeq(chain', 1, Len(chain)) = chain
                /\ Tip(chain').transactions = batch
                /\ Len(pool') = Len(pool)
                /\ \A i \in 1..Len(pool) :
                      IF InBatch(pool, i)
                      THEN pool'[i] = [pool[i] EXCEPT !.status = "confirmed",
                                                      !.blockIndex = Tip(chain').index]
                      ELSE pool'[i] = pool[i]
      ]_vars

----------------------------------------------------------------------------
(* Authority: blocks appended while node statuses and the consensus record   *)
(* are changed between them                                                  *)

\* updateConsensus({ currentValidator })
updateConsensus(currentValidator) ==
    /\ consensus' = [getConsensusState(consensus) EXCEPT
                        !.currentValidator = currentValidator]
    /\ Return("updateConsensus", "ok", <<currentValidator>>)
    /\ UNCHANGED <<chain, nodes, pool, contracts, metricsHistory, now, calls>>

\* The node table with the status of one node rewritten.  No operation of the
\* service writes a status after createNode; the table is the value stored
\* under NODES_KEY, which whoever maintains the nodes overwrites
WithStatus(ns, i, status) == [ns EXCEPT ![i] = [@ EXCEPT !.status = status]]

storeNodeStatus(i, status) ==
    /\ i \in 1..Len(nodes)
    /\ nodes' = WithStatus(nodes, i, status)
    /\ Return("storeNodeStatus", "ok", <<i, status>>)
    /\ UNCHANGED <<chain, consensus, pool, contracts, metricsHistory, now, calls>>

MaxAuthChain == 3       \* blocks in the chain of the authority specification

\* The three validators are the first three nodes of the table
AuthSetStatus ==
    \E i \in 1..3, status \in {"active", "inactive"} : storeNodeStatus(i, status)

\* The authority is set to the second validator or to an id no node has
AuthUpdateConsensus ==
    \E id \in {"v2", "v9"} : updateConsensus(id)

AuthAddBlock == Len(chain) < MaxAuthChain /\ addBlock(<<>>)

NextAuthority ==
    \/ DoInitialize
    \/ AuthSetStatus
    \/ AuthUpdateConsensus
    \/ AuthAddBlock

SpecAuthority == Init /\ [][NextAuthority]_vars

\* A node with the id is in the list
Listed(ns, id) == \E i \in 1..Len(ns) : ns[i].id = id

\* C24: when a block is accepted while the current authority is not in the
\* active validator list and some validator is active, the authority becomes
\* the first validator of the active list; and whenever some validator is
\* active, the authority after a successful addBlock is an active validator.
AuthorityStaysActive ==
    [][(last'.op = "addBlock" /\ last'.result = "ok"
            /\ Len(getActiveValidators(nodes')) >= 1) =>
        LET validators == getActiveValidators(nodes')
        IN /\ ~Listed(validators, getConsensusState(consensus).currentValidator) =>
                 consensus'.currentValidator = validators[1].id
           /\ Listed(validators, consensus'.currentValidator)
      ]_vars

\* A block was accepted under an authority that had been switched off, and the
\* rotation went to the first active validator, which is not the first
\* validator of the table
AuthorityStaysActiveWitness ==
    /\ last.op = "addBlock"
    /\ last.result = "ok"
    /\ Len(chain) >= 2
    /\ ~Listed(getActiveValidators(nodes), Tip(chain).validator)
    /\ Len(getActiveValidators(nodes)) >= 1
    /\ consensus.currentValidator = getActiveValidators(nodes)[1].id
    /\ nodes[1].status = "inactive"

\* C25: every accepted block rotates once: each successful addBlock raises the
\* epoch by exactly 1, so the epoch equals the number of non-genesis blocks in
\* every reachable state, whatever the statuses of the nodes, also when no
\* validator is active.
EpochCountsBlocks ==
    chain # <<>> => getConsensusState(consensus).epoch = Len(chain) - 1

\* C39: every non-genesis block appended by addBlock names as its validator a
\* node that, at the append, is in the node table with type validator and
\* status active, also when node statuses change between blocks.
BlockUnderActiveAuthority ==
    [][(last'.op = "addBlock" /\ last'.result = "ok") =>
        \E i \in 1..Len(nodes) :
            /\ nodes[i].id = Tip(chain').validator
            /\ nodes[i].type = "validator"
            /\ nodes[i].status = "active"
      ]_vars

----------------------------------------------------------------------------
(* Claims on verifyTransaction *)

\* The transaction with the id is in the list
Includes(transactions, id) == FindIndex(transactions, id) # 0

\* C26: verifyTransaction(id) returns not_found when no pool entry has the id,
\* pending or failed when that is the entry's status, and otherwise confirmed
\* with verified = true, the entry's blockIndex and confirmations = chain
\* length - blockIndex; a transaction that addBlock confirms has 1
\* confirmation, and each block appended later adds exactly 1.
VerifyClassifies ==
    [][/\ last'.op = "verifyTransaction" =>
            LET id == last'.value[1]
                answer == last'.value[2]
                index == FindIndex(pool, id)
            IN /\ answer.status \in {"not_found", "pending", "failed", "confirmed"}
               /\ answer.status = "not_found" <=> index = 0
               /\ index # 0 =>
                    IF pool[index].status \in {"pending", "failed"}
                    THEN answer.status = pool[index].status /\ ~answer.verified
                    ELSE answer = [verified |-> TRUE, status |-> "confirmed",
                                   blockIndex |-> pool[index].blockIndex,
                                   confirmations |-> Len(chain) - pool[index].blockIndex]
       /\ (last'.op \in {"addBlock", "processTransactionBatch"} /\ last'.result = "ok") =>
            \A id \in LookTxIds :
                LET before == TransactionVerification(chain, pool, id)
                    after == TransactionVerification(chain', pool', id)
                IN IF before.status = "confirmed"
                   THEN /\ after.status = "confirmed"
                        /\ after.confirmations = before.confirmations + 1
                   ELSE (Includes(Tip(chain').transactions, id) /\ Includes(pool, id)) =>
                            after.status = "confirmed" /\ after.confirmations = 1
      ]_vars

----------------------------------------------------------------------------
(* Contracts: several contracts of one type in the table, deployed,          *)
(* deactivated and executed by id and by type                                *)

\* What getContractMetrics returns
getContractMetrics(cs) ==
    [totalContracts |-> Len(cs),
     activeContracts |-> Len(SelectSeq(cs, LAMBDA c : c.isActive)),
     totalExecutions |-> Sum([i \in 1..Len(cs) |-> cs[i].executionCount]),
     contractsByType |->
        [type \in {cs[i].type : i \in 1..Len(cs)} |->
            Len(SelectSeq(cs, LAMBDA c : c.type = type))]]

MaxConTable == 3        \* contracts in the table
MaxConRuns == 2         \* successful executions

ConTypes == {"election_rules", "custom"}

\* Contract ids: those of the table, and one more
ConIds == 1..(MaxConTable + 1)

\* Argument lists: none, on which a body raises, and one argument
ConArgs == {<<>>, <<"input">>}

ConInit == initializeContracts

ConDeploy ==
    \E type \in ConTypes :
        Len(contracts) < MaxConTable /\ deployContract(type, CodeInline("rule"))

ConDeactivate == \E contractId \in ConIds : deactivateContract(contractId)

ConExecute ==
    \E contractId \in ConIds, args \in ConArgs :
        /\ getContractMetrics(contracts).totalExecutions < MaxConRuns
        /\ executeContract(contractId, args)

ConExecuteByType ==
    \E type \in ConTypes, args \in ConArgs :
        /\ getContractMetrics(contracts).totalExecutions < MaxConRuns
        /\ executeContractByType(type, args)

NextContracts ==
    \/ ConInit
    \/ ConDeploy
    \/ ConDeactivate
    \/ ConExecute
    \/ ConExecuteByType

SpecContracts == Init /\ [][NextContracts]_vars

\* The table in which the contract at index has run once more at the time and
\* nothing else differs
RanOnce(cs, index, timestamp) ==
    [cs EXCEPT ![index] = [@ EXCEPT !.executionCount = @ + 1,
                                    !.lastExecuted = timestamp]]

\* C27: executeContractByType(type) runs the first contract in table order
\* that is active and of the type, also among several of the type and, once
\* that one is deactivated, the next; with no active contract of the type it
\* fails and neither runs anything nor changes a counter.
ByTypeRunsFirstActive ==
    [][last'.op = "executeContractByType" =>
        LET type == last'.value[1]
            candidates == {i \in 1..Len(contracts) :
                              contracts[i].type = type /\ contracts[i].isActive}
        IN IF candidates = {}
           THEN /\ last'.result = "No active contract found"
                /\ contracts' = contracts
           ELSE LET first == CHOOSE i \in candidates : \A j \in candidates : i <= j
                IN \/ /\ last'.result = "ok"
                      /\ contracts' = RanOnce(contracts, first, now)
                   \/ /\ last'.result = "Contract execution failed"
                      /\ contracts' = contracts
      ]_vars

\* The by-type call just ran the third contract: the first of the type is
\* switched off, the second is of the other type, and the third has run
ByTypeRunsFirstActiveWitness ==
    /\ last.op = "executeContractByType"
    /\ last.result = "ok"
    /\ Len(contracts) = 3
    /\ contracts[1].type = last.value[1] /\ ~contracts[1].isActive
    /\ contracts[2].type # last.value[1]
    /\ contracts[3].type = last.value[1] /\ contracts[3].executionCount = 1
    /\ contracts[1].executionCount = 1

\* C28: a successful executeContract raises the counter of that contract by
\* exactly 1 and a failed one (contract unknown, inactive, or the body raising)
\* leaves it; no execution changes another contract's counter or active flag
\* or the number of contracts.  The table starts empty and deployContract
\* adds a counter of 0, so with every step adding 1 to totalExecutions exactly
\* when it is a successful execution, the totalExecutions of
\* getContractMetrics is the number of successful executions so far.
ExecutionsCounted ==
    [][/\ last'.op = "executeContract" =>
            LET index == FindIndex(contracts, last'.value[1])
            IN /\ index = 0 => last'.result = "Contract not found"
               /\ (index # 0 /\ ~contracts[index].isActive) =>
                        last'.result = "Contract is not active"
               /\ IF last'.result = "ok"
                  THEN contracts' = RanOnce(contracts, index, now)
                  ELSE contracts' = contracts
       /\ getContractMetrics(contracts').totalExecutions =
            getContractMetrics(contracts).totalExecutions
                + (IF last'.op \in {"executeContract", "executeContractByType"}
                        /\ last'.result = "ok"
                   THEN 1 ELSE 0)
       /\ last'.op = "deployContract" =>
            /\ Len(contracts') = Len(contracts) + 1
            /\ contracts'[Len(contracts')].executionCount = 0
      ]_vars

\* The second contract has just run for the second time, beside a contract
\* that is switched off and never ran
ExecutionsCountedWitness ==
    /\ last.op = "executeContract"
    /\ last.result = "ok"
    /\ last.value[1] = 2
    /\ Len(contracts) >= 2
    /\ contracts[2].executionCount = 2
    /\ ~contracts[1].isActive
    /\ contracts[1].executionCount = 0
    /\ getContractMetrics(contracts).totalExecutions = 2

----------------------------------------------------------------------------
(* Health: snapshots, health reports and anomalies read from ledgers with    *)
(* slow blocks, switched-off nodes, a changed block and a backlog            *)

Finding(type, severity, message, timestamp) ==
    [type |-> type, severity |-> severity, message |-> message,
     timestamp |-> timestamp]

\* A detectAnomalies that reports a backlog from the threshold on
detectAnomaliesFromThreshold(metrics, timestamp) ==
    (IF ~metrics.chainValidity
     THEN <<Finding("security", "high", "Blockchain integrity check failed", timestamp)>>
     ELSE <<>>)
    \o (IF metrics.consensusHealth = "critical"
        THEN <<Finding("consensus", "high", "Consensus mechanism in critical state", timestamp)>>
        ELSE <<>>)
    \o (IF metrics.pendingTransactions >= PENDING_CRITICAL
        THEN <<Finding("performance", "high", "Pending transaction backlog", timestamp)>>
        ELSE <<>>)
    \o (IF Exceeds(metrics.averageBlockTime, BLOCK_TIME_CRITICAL)
        THEN <<Finding("performance", "medium", "Block time exceeds threshold", timestamp)>>
        ELSE <<>>)

\* The findings detectAnomalies returns for a snapshot, in the order of its
\* tests; the numbers in the messages are left out
detectAnomalies(metrics, timestamp) ==
    (IF ~metrics.chainValidity
     THEN <<Finding("security", "high", "Blockchain integrity check failed", timestamp)>>
     ELSE <<>>)
    \o (IF metrics.consensusHealth = "critical"
        THEN <<Finding("consensus", "high", "Consensus mechanism in critical state", timestamp)>>
        ELSE <<>>)
    \o (IF metrics.pendingTransactions > PENDING_CRITICAL
        THEN <<Finding("performance", "high", "Pending transaction backlog", timestamp)>>
        ELSE <<>>)
    \o (IF Exceeds(metrics.averageBlockTime, BLOCK_TIME_CRITICAL)
        THEN <<Finding("performance", "medium", "Block time exceeds threshold", timestamp)>>
        ELSE <<>>)

readAnomalies ==
    /\ Return("detectAnomalies", "ok",
              <<detectAnomalies(getRealtimeMetrics(chain, pool, nodes, consensus, now), now)>>)
    /\ UNCHANGED <<chain, nodes, consensus, pool, contracts, metricsHistory, now, calls>>

\* Ledgers of 1, 2 and 3 blocks without transactions; the second block comes
\* 10 s, just over 10 s, 30 s or just over 30 s after the first, the third
\* twice as long after the second
HealthLedgers ==
    {BuiltLedger(InitialLedger(0), 1, blocks, 0, step) :
        blocks \in {0, 1, 2},
        step \in {BLOCK_TIME_WARNING, BLOCK_TIME_WARNING + 1,
                  BLOCK_TIME_CRITICAL, BLOCK_TIME_CRITICAL + 1}}

InitHealth ==
    /\ \E ledger \in HealthLedgers :
          /\ chain = ledger.chain
          /\ nodes = ledger.nodes
          /\ consensus = ledger.consensus
          /\ now = Tip(ledger.chain).timestamp
    /\ \E n \in {0, PENDING_CRITICAL, PENDING_CRITICAL + 1} : pool = PendingPool(n)
    /\ contracts = <<>>
    /\ metricsHistory = <<>>
    /\ last = [op |-> "none", result |-> "none", value |-> <<>>]
    /\ calls = [c \in Callers |-> IdleCall]

\* A node other than the first validator goes off
HealthSetStatus ==
    \E i \in 2..Len(nodes) : storeNodeStatus(i, "inactive")

\* One block of a chain that validates is changed in the store
HealthTamper ==
    \E i \in 1..Len(chain) : validateBlockchain(chain) /\ Tamper(i, "data")

HealthReadMetrics == readRealtimeMetrics

HealthReadHealth == readBlockchainHealth

HealthReadAnomalies == readAnomalies

NextHealth ==
    \/ HealthSetStatus
    \/ HealthTamper
    \/ HealthReadMetrics
    \/ HealthReadHealth
    \/ HealthReadAnomalies

SpecHealth == InitHealth /\ [][NextHealth]_vars

\* Nodes of the table that are active, and validators among them
ActiveNodeSet == {i \in 1..Len(nodes) : nodes[i].status = "active"}

ActiveValidatorSet == {i \in ActiveNodeSet : nodes[i].type = "validator"}

\* The mean gap between adjacent blocks exceeds the bound: the gaps of a chain
\* of at most 100 blocks add up to the time from the first block to the last
MeanBlockTimeExceeds(bound) ==
    /\ Len(chain) >= 2
    /\ Tip(chain).timestamp - chain[1].timestamp > bound * (Len(chain) - 1)

ExpectedConsensusHealth ==
    IF ~validateBlockchain(chain) \/ Cardinality(ActiveValidatorSet) < 2
    THEN "critical"
    ELSE IF 2 * Cardinality(ActiveNodeSet) < Len(nodes)
            \/ MeanBlockTimeExceeds(BLOCK_TIME_WARNING)
    THEN "degraded"
    ELSE "healthy"

\* C29: getRealtimeMetrics reports consensus health critical exactly when the
\* chain is invalid or fewer than 2 validators are active; otherwise degraded
\* exactly when fewer than half of all nodes are active or the mean block time
\* exceeds 10,000 ms; and healthy in every other case.
ConsensusHealthClassified ==
    last.op = "getRealtimeMetrics" =>
        last.value[1].consensusHealth = ExpectedConsensusHealth

\* Degraded by block time alone: all nodes active, the chain valid, blocks just
\* over 10 s apart
ConsensusHealthClassifiedWitness ==
    /\ last.op = "getRealtimeMetrics"
    /\ last.value[1].consensusHealth = "degraded"
    /\ Cardinality(ActiveNodeSet) = Len(nodes)
    /\ validateBlockchain(chain)
    /\ Len(chain) = 2
    /\ chain[2].timestamp - chain[1].timestamp = BLOCK_TIME_WARNING + 1

----------------------------------------------------------------------------
(* Claims on detectAnomalies                                                 *)

\* The findings of a report that carry the type and the severity
FindingsOf(report, type, severity) ==
    {i \in 1..Len(report) : report[i].type = type /\ report[i].severity = severity}

\* C30: detectAnomalies reports exactly one finding for each condition that
\* holds: security/high for an invalid chain, consensus/high for critical
\* consensus health, performance/high for more than 500 pending transactions
\* and performance/medium for a mean block time above 30,000 ms; it reports
\* nothing else, and an empty list when none of them holds.
OneFindingPerCondition ==
    last.op = "detectAnomalies" =>
        LET report == last.value[1]
            One(condition) == IF condition THEN 1 ELSE 0
            pending == Cardinality({i \in 1..Len(pool) : pool[i].status = "pending"})
        IN /\ Cardinality(FindingsOf(report, "security", "high"))
                = One(~validateBlockchain(chain))
           /\ Cardinality(FindingsOf(report, "consensus", "high"))
                = One(ExpectedConsensusHealth = "critical")
           /\ Cardinality(FindingsOf(report, "performance", "high"))
                = One(pending > 500)
           /\ Cardinality(FindingsOf(report, "performance", "medium"))
                = One(MeanBlockTimeExceeds(30000))
           /\ Len(report) = One(~validateBlockchain(chain))
                            + One(ExpectedConsensusHealth = "critical")
                            + One(pending > 500)
                            + One(MeanBlockTimeExceeds(30000))

\* A backlog of exactly 500 pending transactions on a slow, valid chain with
\* too few validators: two findings, none of them for the backlog
OneFindingPerConditionWitness ==
    /\ last.op = "detectAnomalies"
    /\ Len(pool) = 500
    /\ Len(last.value[1]) = 2
    /\ validateBlockchain(chain)
    /\ Cardinality(ActiveValidatorSet) < 2
    /\ MeanBlockTimeExceeds(30000)

----------------------------------------------------------------------------
(* Long chains: calculateBlockTimes and the mean getRealtimeMetrics takes    *)
(* from it, applied to chains around the window of 100 blocks. The function  *)
(* reads the timestamp of a block and nothing else, so the blocks here carry *)
(* their index and timestamp only.                                           *)

MaxWindowChain == 103   \* blocks in the chain of the window specification

TimedBlock(index, timestamp) == [index |-> index, timestamp |-> timestamp]

\* A chain of the given length whose second block comes `first` ms after the
\* genesis block and every later block `rest` ms after the one before
TimedChain(length, first, rest) ==
    [i \in 1..length |->
        TimedBlock(i - 1, IF i = 1 THEN 0 ELSE first + (i - 2) * rest)]

WindowChains ==
    {TimedChain(length, first, MS_PER_SECOND) :
        length \in {1, 2, 3, 99, 100, 101},
        first \in {0, MS_PER_SECOND, 3 * MS_PER_SECOND}}

InitWindow ==
    /\ chain \in WindowChains
    /\ nodes = <<>>
    /\ consensus = NoConsensus
    /\ \E wait \in {0, MS_PER_SECOND} : now = Tip(chain).timestamp + wait
    /\ pool = <<>>
    /\ contracts = <<>>
    /\ metricsHistory = <<>>
    /\ last = [op |-> "none", result |-> "none", value |-> <<>>]
    /\ calls = [c \in Callers |-> IdleCall]

\* The next block is stored with the time of its creation
WindowAddBlock ==
    /\ Len(chain) < MaxWindowChain
    /\ chain' = PushBlock(chain, TimedBlock(Tip(chain).index + 1, now))
    /\ Return("addBlock", "ok", <<Tip(chain).index + 1>>)
    /\ UNCHANGED <<nodes, consensus, pool, contracts, metricsHistory, now, calls>>

WindowReadBlockTime ==
    /\ Return("averageBlockTime", "ok", <<averageBlockTime(chain)>>)
    /\ UNCHANGED <<chain, nodes, consensus, pool, contracts, metricsHistory, now, calls>>

NextWindow ==
    \/ WindowAddBlock
    \/ WindowReadBlockTime

SpecWindow == InitWindow /\ [][NextWindow]_vars

\* C31: the mean inter-block time getRealtimeMetrics reports is the mean of
\* the timestamp gaps between adjacent blocks among the last 100 blocks of the
\* chain, for chains of every length, and 0 for a chain of fewer than 2 blocks.
MeanOverLastHundred ==
    last.op = "averageBlockTime" =>
        LET average == last.value[1]
            first == IF Len(chain) > 100 THEN Len(chain) - 99 ELSE 1
            gaps == [i \in 1..(Len(chain) - first) |->
                        chain[first + i].timestamp - chain[first + i - 1].timestamp]
        IN IF Len(chain) < 2 THEN average.num = 0
           ELSE average.num * Len(gaps) = Sum(gaps) * average.den

----------------------------------------------------------------------------
(* Pool statistics *)

\* What getTransactionStats returns for a pool; a gasUsed of 0 is falsy
getTransactionStats(p) ==
    LET counted == SelectSeq(p, LAMBDA tx : tx.status = "confirmed" /\ tx.gasUsed # 0)
        totalGasUsed == Sum([i \in 1..Len(counted) |-> counted[i].gasUsed])
        types == {p[i].type : i \in 1..Len(p)}
    IN [totalTransactions |-> Len(p),
        pendingTransactions |-> Len(SelectSeq(p, LAMBDA tx : tx.status = "pending")),
        confirmedTransactions |-> Len(SelectSeq(p, LAMBDA tx : tx.status = "confirmed")),
        failedTransactions |-> Len(SelectSeq(p, LAMBDA tx : tx.status = "failed")),
        transactionsByType |->
            [type \in types |-> Len(SelectSeq(p, LAMBDA tx : tx.type = type))],
        averageGasUsed |-> IF Len(counted) > 0 THEN Ratio(totalGasUsed, Len(counted))
                           ELSE Zero]

readTransactionStats ==
    /\ Return("getTransactionStats", "ok", <<getTransactionStats(pool)>>)
    /\ UNCHANGED <<chain, nodes, consensus, pool, contracts, metricsHistory, now, calls>>

MaxGasPool == 3     \* transactions in the pool of the statistics specification

GasTxIds == 1..MaxGasPool

\* Gas a caller reports with a confirmation
GasAmounts == {0, 100, 300}

GasSubmit ==
    \E id \in GasTxIds : FreshId(Tx(id)) /\ submitTransaction(Tx(id))

GasMarkConfirmed ==
    \E id \in GasTxIds, gasUsed \in GasAmounts : markTransactionConfirmed(id, 1, gasUsed)

GasMarkFailed == \E id \in GasTxIds : markTransactionFailed(id)

GasReadStats == readTransactionStats

NextGas ==
    \/ GasSubmit
    \/ GasMarkConfirmed
    \/ GasMarkFailed
    \/ GasReadStats

SpecGas == Init /\ [][NextGas]_vars

\* C32: getTransactionStats reports as averageGasUsed the sum of gasUsed over
\* all confirmed pool transactions divided by the number of confirmed pool
\* transactions, those with gasUsed 0 included in the divisor, and 0 when none
\* is confirmed; pending and failed transactions count in neither.
MeanGasOverConfirmed ==
    last.op = "getTransactionStats" =>
        LET average == last.value[1].averageGasUsed
            confirmed == {i \in 1..Len(pool) : pool[i].status = "confirmed"}
            gas == [i \in 1..Len(pool) |->
                       IF i \in confirmed THEN pool[i].gasUsed ELSE 0]
        IN IF confirmed = {} THEN average.num = 0
           ELSE average.num * Cardinality(confirmed) = Sum(gas) * average.den

----------------------------------------------------------------------------
(* Observation: every monitoring operation, called between ledger, pool and  *)
(* rule-engine operations                                                    *)

getValidatorPerformance(ns) ==
    LET validators == SelectSeq(ns, LAMBDA n : n.type = "validator")
    IN [i \in 1..Len(validators) |->
           [validatorId |-> validators[i].id,
            address |-> validators[i].address,
            blocksValidated |-> validators[i].blocksValidated,
            reputation |-> validators[i].reputation,
            uptime |-> IF validators[i].status = "active" THEN 100 ELSE 0]]

HOURS_SHOWN == 24

AVERAGE_CONFIRMATION_TIME == 3000

getTransactionAnalytics(p, c) ==
    LET stats == getTransactionStats(p)
        recentBlocks == LastN(c, HOURS_SHOWN)
    IN [hourlyVolume |->
            [index \in 1..HOURS_SHOWN |->
                IF index <= Len(recentBlocks)
                THEN Len(recentBlocks[index].transactions) ELSE 0],
        typeDistribution |-> stats.transactionsByType,
        averageConfirmationTime |-> AVERAGE_CONFIRMATION_TIME,
        successRate |-> IF stats.totalTransactions > 0
                        THEN Ratio(stats.confirmedTransactions * 100,
                                   stats.totalTransactions)
                        ELSE Zero]

PEER_CONNECTIONS == 3

getNetworkTopology(ns) ==
    LET nodeInfo == [i \in 1..Len(ns) |->
                        [id |-> ns[i].id, type |-> ns[i].type, status |-> ns[i].status,
                         connections |-> IF ns[i].type = "validator" THEN Len(ns) - 1
                                         ELSE PEER_CONNECTIONS]]
    IN [nodes |-> nodeInfo,
        totalConnections |-> Sum([i \in 1..Len(nodeInfo) |-> nodeInfo[i].connections])]

readValidatorPerformance ==
    /\ Return("getValidatorPerformance", "ok", <<getValidatorPerformance(nodes)>>)
    /\ UNCHANGED <<chain, nodes, consensus, pool, contracts, metricsHistory, now, calls>>

readTransactionAnalytics ==
    /\ Return("getTransactionAnalytics", "ok", <<getTransactionAnalytics(pool, chain)>>)
    /\ UNCHANGED <<chain, nodes, consensus, pool, contracts, metricsHistory, now, calls>>

readNetworkTopology ==
    /\ Return("getNetworkTopology", "ok", <<getNetworkTopology(nodes)>>)
    /\ UNCHANGED <<chain, nodes, consensus, pool, contracts, metricsHistory, now, calls>>

MaxObsChain == 2        \* blocks in the chain of the observation specification

ObsSubmit == FreshId(Tx(1)) /\ submitTransaction(Tx(1))

ObsProcessBatch == Len(chain) < MaxObsChain /\ processTransactionBatch

ObsInitContracts == initializeContracts

ObsCollect == Len(metricsHistory) < MaxHistory /\ collectMetrics

ObsReadMetrics == readRealtimeMetrics

ObsReadHealth == readBlockchainHealth

ObsReadAnomalies == readAnomalies

ObsReadValidators == readValidatorPerformance

ObsReadAnalytics == readTransactionAnalytics

ObsReadTopology == readNetworkTopology

ObsReadBlockStatistics == \E index \in {0, 1} : getBlockStatistics(index)

NextObserve ==
    \/ DoInitialize
    \/ ObsSubmit
    \/ ObsProcessBatch
    \/ ObsInitContracts
    \/ ObsCollect
    \/ ObsReadMetrics
    \/ ObsReadHealth
    \/ ObsReadAnomalies
    \/ ObsReadValidators
    \/ ObsReadAnalytics
    \/ ObsReadTopology
    \/ ObsReadBlockStatistics

SpecObserve == Init /\ [][NextObserve]_vars

MonitoringOperations ==
    {"getRealtimeMetrics", "getBlockchainHealth", "detectAnomalies",
     "getValidatorPerformance", "getTransactionAnalytics", "getNetworkTopology",
     "getBlockStatistics", "collectMetrics"}

\* C33: the monitoring operations leave the chain, the pool, the node table,
\* the consensus state and the contract table unchanged; the only state any of
\* them changes is the metrics history, and only collectMetrics changes it.
MonitoringOnlyReads ==
    [][last'.op \in MonitoringOperations =>
          /\ <<chain, pool, nodes, consensus, contracts>>'
                = <<chain, pool, nodes, consensus, contracts>>
          /\ metricsHistory' # metricsHistory => last'.op = "collectMetrics"]_vars

\* A snapshot was collected on an initialized ledger with a confirmed
\* transaction and the default contracts
MonitoringOnlyReadsWitness ==
    /\ last.op = "collectMetrics"
    /\ Len(metricsHistory) = 1
    /\ Len(chain) = 2
    /\ pool # <<>>
    /\ contracts # <<>>

----------------------------------------------------------------------------
(* Mining: blocks appended under proof of authority and proof of work        *)

\* updateConsensus({ mechanism, difficulty })
updateConsensusMechanism(mechanism, difficulty) ==
    /\ consensus' = [getConsensusState(consensus) EXCEPT
                        !.mechanism = mechanism, !.difficulty = difficulty]
    /\ Return("updateConsensus", "ok", <<mechanism, difficulty>>)
    /\ UNCHANGED <<chain, nodes, pool, contracts, metricsHistory, now, calls>>

MaxMineChain == 3       \* blocks in the chain of the mining specification

MineSetMechanism ==
    \E mechanism \in {"PoA", "PoW"}, difficulty \in {1, INITIAL_DIFFICULTY} :
        chain # <<>> /\ updateConsensusMechanism(mechanism, difficulty)

MineSubmit == FreshId(Tx(1)) /\ submitTransaction(Tx(1))

MineAddBlock == Len(chain) < MaxMineChain /\ addBlock(<<>>)

MineProcessBatch == Len(chain) < MaxMineChain /\ processTransactionBatch

NextMining ==
    \/ DoInitialize
    \/ MineSetMechanism
    \/ MineSubmit
    \/ MineAddBlock
    \/ MineProcessBatch

SpecMining == Init /\ [][NextMining]_vars

\* C34: under PoW every block addBlock appends has a hash whose first
\* `difficulty` characters are '0' and that equals the digest recomputed from
\* the block's stored fields, the found nonce included, so that the block
\* passes validateBlock; under PoA the nonce stays 0.
MinedBlockMeetsDifficulty ==
    [][(last'.op \in {"addBlock", "processTransactionBatch"} /\ last'.result = "ok") =>
          LET cons == getConsensusState(consensus)
              newBlock == Tip(chain')
          IN /\ Len(chain') = Len(chain) + 1
             /\ cons.mechanism = "PoW" =>
                   /\ ZeroPrefix(newBlock.hash) >= cons.difficulty
                   /\ newBlock.difficulty = cons.difficulty
                   /\ newBlock.hash = calculateHash(newBlock)
                   /\ validateBlock(newBlock, Tip(chain)) = "valid"
             /\ cons.mechanism = "PoA" =>
                   /\ newBlock.nonce = 0
                   /\ newBlock.hash = calculateHash(newBlock)]_vars

\* A block mined at difficulty 3 with a nonce other than 0 follows a block
\* appended under PoA
MinedBlockMeetsDifficultyWitness ==
    /\ last.op = "processTransactionBatch"
    /\ last.result = "ok"
    /\ Len(chain) = 3
    /\ chain[2].nonce = 0
    /\ chain[3].nonce # 0
    /\ chain[3].difficulty = INITIAL_DIFFICULTY
    /\ ZeroPrefix(chain[3].hash) = INITIAL_DIFFICULTY
    /\ chain[3].transactions # <<>>

----------------------------------------------------------------------------
(* Inclusion: transactions submitted any number of times, batches, blocks of *)
(* transaction lists handed to addBlock, and pruning                         *)

MaxInclPool == 3        \* pool entries of the inclusion specification
MaxInclChain == 3       \* blocks in the chain of the inclusion specification

InclSubmit ==
    \E tx \in TxInputs \cup {Prebuilt} :
        Len(pool) < MaxInclPool /\ submitTransaction(tx)

InclProcessBatch == Len(chain) < MaxInclChain /\ processTransactionBatch

InclAddBlock == \E transactions \in TxLists : Len(chain) < MaxInclChain /\ addBlock(transactions)

InclClear == \E olderThan \in 0..(MaxTime + 1) : clearConfirmedTransactions(olderThan)

NextInclusion ==
    \/ DoInitialize
    \/ InclSubmit
    \/ InclProcessBatch
    \/ InclAddBlock
    \/ InclClear

SpecInclusion == Init /\ [][NextInclusion]_vars

\* C35: after any sequence of complete submitTransaction,
\* processTransactionBatch, addBlock and clearConfirmedTransactions calls,
\* every confirmed pool transaction has a blockIndex i smaller than the chain
\* length, and the block at position i has index i and contains a transaction
\* with that id.
ConfirmedIsInItsBlock ==
    \A k \in 1..Len(pool) :
        pool[k].status = "confirmed" =>
            /\ pool[k].blockIndex >= 0
            /\ pool[k].blockIndex < Len(chain)
            /\ chain[pool[k].blockIndex + 1].index = pool[k].blockIndex
            /\ Includes(chain[pool[k].blockIndex + 1].transactions, pool[k].id)

----------------------------------------------------------------------------
(* Claims on the transactions of the chain                                   *)

\* The places <<block, position>> of the chain at which a transaction with the
\* id stands
PlacesOf(id) ==
    {place \in (1..Len(chain)) \X (1..BATCH_SIZE) :
        /\ place[2] <= Len(chain[place[1]].transactions)
        /\ chain[place[1]].transactions[place[2]].id = id}

\* C36: in any sequence of submitTransaction and processTransactionBatch
\* calls, also when a transaction is submitted more than once, no transaction
\* id appears in the transaction lists of two different blocks, and none
\* appears twice within one block.
TransactionInOneBlockOnce ==
    \A id \in TxIds : Cardinality(PlacesOf(id)) <= 1

----------------------------------------------------------------------------
(* Draining: an initialized ledger, a pool of created transactions each      *)
(* submitted once, and nothing but processTransactionBatch calls             *)

MaxDrainPool == 21      \* transactions in the longest pool to drain

\* Pools of transactions as createTransaction returns them, of every type
\* stride and timestamp stride
DrainPools ==
    {[i \in 1..n |-> BatchTx(i, a, c, 0)] :
        n \in {0, 1, BATCH_SIZE - 1, BATCH_SIZE, BATCH_SIZE + 1,
               MaxDrainPool - 1, MaxDrainPool},
        a \in 0..4, c \in 0..2}

InitDrain ==
    /\ LET ledger == InitialLedger(0)
       IN /\ chain = ledger.chain
          /\ nodes = ledger.nodes
          /\ consensus = ledger.consensus
    /\ pool \in DrainPools
    /\ contracts = <<>>
    /\ metricsHistory = <<>>
    /\ now = 3
    /\ last = [op |-> "none", result |-> "none", value |-> <<>>]
    /\ calls = [c \in Callers |-> IdleCall]

DrainProcessBatch == processTransactionBatch

NextDrain == DrainProcessBatch

\* A further call changes nothing: every transaction is processed and the
\* last call returned null
Drained ==
    /\ getBatchForProcessing(pool) = <<>>
    /\ last = [op |-> "processTransactionBatch", result |-> "null", value |-> <<>>]

\* The caller keeps invoking processTransactionBatch: calls are made again and
\* again unless a further call changes nothing
SpecDrain ==
    InitDrain /\ [][NextDrain]_vars /\ ([]<>Drained \/ []<><<DrainProcessBatch>>_vars)

PendingCount(p) == Cardinality({i \in 1..Len(p) : p[i].status = "pending"})

ConfirmedCount(p) == Cardinality({i \in 1..Len(p) : p[i].status = "confirmed"})

\* C37: with every pool transaction created by createTransaction, submitted
\* once and none submitted later, repeated processTransactionBatch calls
\* eventually leave no pending transaction: each call confirms min(10, number
\* pending), so P pending transactions are all confirmed after ceil(P / 10)
\* calls, and every later call returns null.
BatchesDrainPool ==
    /\ [][last'.op = "processTransactionBatch" =>
             IF PendingCount(pool) = 0
             THEN last'.result = "null" /\ UNCHANGED <<chain, pool>>
             ELSE /\ last'.result = "ok"
                  /\ Len(chain') = Len(chain) + 1
                  /\ ConfirmedCount(pool') - ConfirmedCount(pool)
                        = Min(10, PendingCount(pool))
                  /\ PendingCount(pool) - PendingCount(pool')
                        = Min(10, PendingCount(pool))]_vars
    /\ [](Len(chain) - 1 >= (Len(pool) + 9) \div 10 => ConfirmedCount(pool) = Len(pool))
    /\ <>[](PendingCount(pool) = 0)

\* 21 transactions were confirmed by three calls, and the fourth returned null
BatchesDrainPoolWitness ==
    /\ last.op = "processTransactionBatch"
    /\ last.result = "null"
    /\ Len(pool) = 21
    /\ ConfirmedCount(pool) = 21
    /\ Len(chain) = 4
    /\ Len(chain[4].transactions) = 1

----------------------------------------------------------------------------
(* Claims on the health report and the anomalies of one state                *)

\* C38: on the same ledger, pool and node state, getBlockchainHealth returns
\* overall healthy exactly when its issue list is empty, and whenever it
\* returns healthy detectAnomalies returns no finding.
HealthyMeansNoAnomaly ==
    LET metrics == getRealtimeMetrics(chain, pool, nodes, consensus, now)
    IN /\ last.op = "getBlockchainHealth" =>
             /\ last.value[2].overall = "healthy" <=> last.value[2].issues = <<>>
             /\ last.value[2].overall = "healthy" =>
                   detectAnomalies(metrics, now) = <<>>
       /\ (last.op = "detectAnomalies" /\ last.value[1] # <<>>) =>
             getBlockchainHealth(metrics).overall # "healthy"

\* A healthy report on the edge of every threshold: blocks 10 s apart, 500
\* pending transactions, three active nodes
HealthyMeansNoAnomalyWitness ==
    /\ last.op = "getBlockchainHealth"
    /\ last.value[2].overall = "healthy"
    /\ Len(chain) = 2
    /\ chain[2].timestamp - chain[1].timestamp = BLOCK_TIME_WARNING
    /\ Len(pool) = PENDING_CRITICAL
    /\ Cardinality(ActiveNodeSet) = ACTIVE_NODES_WARNING

----------------------------------------------------------------------------
(* Pool interleaving: the mutations of the pool as the storage read and the  *)
(* storage write they await, two invocations at a time                       *)

PoolMutations == {"submitTransaction", "markTransactionConfirmed",
                  "markTransactionFailed", "clearConfirmedTransactions"}

\* The invocation is handed its arguments: the transaction of a submission in
\* transactions, the transactionId or the cutoff time in k
StartPoolMutation(c, op, transactions, k) ==
    /\ calls[c].pc = "idle"
    /\ calls' = [calls EXCEPT ![c] =
          IF op = "submitTransaction" /\ validateTransaction(transactions[1]) # "valid"
          THEN [@ EXCEPT !.pc = "done", !.op = op, !.transactions = transactions,
                         !.result = "Transaction validation failed"]
          ELSE [@ EXCEPT !.pc = "poolRead", !.op = op,
                         !.transactions = transactions, !.k = k]]
    /\ UNCHANGED <<contracts, metricsHistory, chain, nodes, consensus, pool, now, last>>

\* getTransactionPool reads the pool, and the invocation changes its copy
PoolRead(c) ==
    /\ calls[c].pc = "poolRead"
    /\ LET call == calls[c]
       IN calls' = [calls EXCEPT ![c] =
             CASE call.op = "submitTransaction" ->
                    IF Len(pool) >= MAX_POOL_SIZE
                    THEN [@ EXCEPT !.pc = "done", !.result = "Transaction pool is full"]
                    ELSE [@ EXCEPT !.pc = "poolWrite",
                                   !.pool = Append(pool, call.transactions[1])]
               [] call.op = "markTransactionConfirmed" ->
                    IF FindIndex(pool, call.k) = 0
                    THEN [@ EXCEPT !.pc = "done", !.result = "ok", !.pool = pool]
                    ELSE [@ EXCEPT !.pc = "poolWrite",
                                   !.pool = MarkConfirmedPool(pool, call.k, 1, 0)]
               [] call.op = "markTransactionFailed" ->
                    IF FindIndex(pool, call.k) = 0
                    THEN [@ EXCEPT !.pc = "done", !.result = "ok", !.pool = pool]
                    ELSE [@ EXCEPT !.pc = "poolWrite",
                                   !.pool = MarkFailedPool(pool, call.k)]
               [] call.op = "clearConfirmedTransactions" ->
                    [@ EXCEPT !.pc = "poolWrite",
                              !.pool = ClearConfirmedPool(pool, call.k)]]
    /\ UNCHANGED <<contracts, metricsHistory, chain, nodes, consensus, pool, now, last>>

\* setItem writes the copy back
PoolWrite(c) ==
    /\ calls[c].pc = "poolWrite"
    /\ pool' = calls[c].pool
    /\ calls' = [calls EXCEPT ![c] = [@ EXCEPT !.pc = "done", !.result = "ok"]]
    /\ UNCHANGED <<contracts, metricsHistory, chain, nodes, consensus, now, last>>

\* Pools with the first transaction pending or confirmed in block 1
RacePools == {<<>>, <<Tx(1)>>, MarkConfirmedPool(<<Tx(1)>>, 1, 1, 0)}

InitPoolRace ==
    /\ chain = <<createGenesisBlock(0)>>
    /\ nodes = initializeNetwork(<<>>, 0)
    /\ consensus = InitialConsensus(nodes)
    /\ pool \in RacePools
    /\ contracts = <<>>
    /\ metricsHistory = <<>>
    /\ now = 0
    /\ last = [op |-> "initializeBlockchain", result |-> "ok", value |-> <<>>]
    /\ calls = [c \in Callers |-> IdleCall]

\* Each caller submits a transaction of its own, created afresh
PoolRaceStartSubmit ==
    \E c \in Callers : StartPoolMutation(c, "submitTransaction", <<Tx(c + 1)>>, 0)

PoolRaceStartMarkConfirmed ==
    \E c \in Callers, id \in 1..3 :
        StartPoolMutation(c, "markTransactionConfirmed", <<>>, id)

PoolRaceStartMarkFailed ==
    \E c \in Callers, id \in 1..3 :
        StartPoolMutation(c, "markTransactionFailed", <<>>, id)

PoolRaceStartClear ==
    \E c \in Callers, olderThan \in 0..MaxTime :
        StartPoolMutation(c, "clearConfirmedTransactions", <<>>, olderThan)

PoolRaceRead == \E c \in Callers : PoolRead(c)

PoolRaceWrite == \E c \in Callers : PoolWrite(c)

NextPoolRace ==
    \/ PoolRaceStartSubmit
    \/ PoolRaceStartMarkConfirmed
    \/ PoolRaceStartMarkFailed
    \/ PoolRaceStartClear
    \/ PoolRaceRead
    \/ PoolRaceWrite

SpecPoolRace == InitPoolRace /\ [][NextPoolRace]_vars

\* What a completed mutation leaves in the pool when nothing but submissions
\* runs beside it
EffectPresent(call) ==
    CASE call.op = "submitTransaction" -> Includes(pool, call.transactions[1].id)
      [] call.op = "markTransactionConfirmed" ->
            Includes(call.pool, call.k) =>
                \E i \in 1..Len(pool) : pool[i].id = call.k /\ pool[i].status = "confirmed"
      [] call.op = "markTransactionFailed" ->
            Includes(call.pool, call.k) =>
                \E i \in 1..Len(pool) : pool[i].id = call.k /\ pool[i].status = "failed"
      [] call.op = "clearConfirmedTransactions" ->
            \A i \in 1..Len(pool) :
                ~(pool[i].status = "confirmed" /\ pool[i].timestamp <= call.k)

====
